---- MODULE Spec2Model ----
(***************************************************************************)
(* Feedback relay server of hata-masazhu (the richest server variant):     *)
(* the three POST endpoints, the Telegram delivery client with its retry   *)
(* loop, the alert throttle and the master-click dedup cache; the text     *)
(* sanitizer on its own; and the review form script of the browser with    *)
(* its stored review.                                                      *)
(*                                                                         *)
(* One step of the model is one run of JavaScript between two suspension   *)
(* points of the event loop: a handler runs from the arrival of a request  *)
(* to its first awaited HTTP POST (or to its response), and resumes when   *)
(* the POST settles or the retry timer fires.                              *)
(*                                                                         *)
(* JS strings are sequences of UTF-16 code units.  Message texts are not   *)
(* modelled: formatting reads no shared state and cannot throw.            *)
(* Requests are assumed to pass the HTTPS redirect and the rate limiters.  *)
(***************************************************************************)
EXTENDS Integers, Sequences, FiniteSets, TLC

\* ------------------------------------------------------------------ bounds

\* Clock ticks after startup that a behaviour may span.
Horizon == 4

\* process.env.MASTER_CLICK_DEDUP_MS (default 30 000 ms) in clock ticks.
MASTER_CLICK_DEDUP_MS == 2

\* process.env.ERROR_ALERT_MIN_MS (default 300 000 ms) in clock ticks.
ALERT_MIN_INTERVAL_MS == 3

\* process.env.TELEGRAM_RETRY_ATTEMPTS (default 1).
TELEGRAM_RETRY_ATTEMPTS == 1

\* Size above which an insert sweeps the dedup cache (1000 in the source).
CLEANUP_SIZE == 2

\* Longest text handed to the sanitizer on its own, in code units.
MaxTextLen == 4

\* Largest maxLength handed to the sanitizer on its own (60 and 500 in the
\* handlers).
MaxLimit == 3

\* REVIEW_TTL_MS of the form script (72 hours) in clock ticks.
REVIEW_TTL_MS == 2

\* Google-click requests with the stored review that a behaviour may send.
MaxClicks == 3

\* max of reviewLimiter and of clickLimiter (10 and 30 requests a window).
RATE_LIMIT_MAX == 2

\* ------------------------------------------------------- program constants

MAX_NAME_LENGTH == 60

MAX_REASON_LENGTH == 500

\* process.env.TELEGRAM_TIMEOUT_MS (default 5000 ms).
TELEGRAM_TIMEOUT_MS == 5000

\* process.env.TELEGRAM_RETRY_DELAY_MS (default 500 ms).
TELEGRAM_RETRY_DELAY_MS == 500

\* Date.now() at startup: the epoch lies further back than any configured
\* interval, so the first throttle check against lastAlertAt = 0 passes.
StartTime == ALERT_MIN_INTERVAL_MS + MASTER_CLICK_DEDUP_MS + 1

MaxTime == StartTime + Horizon

\* ---------------------------------------------------------------- JS values

\* A JSON value of a request body: undefined (absent), null, a boolean, a
\* number n (or n + 1/2 when half), or a string s.
Undefined == [t |-> "undefined", n |-> 0, half |-> FALSE, s |-> <<>>]

Null == [t |-> "null", n |-> 0, half |-> FALSE, s |-> <<>>]

JBool(b) == [t |-> "boolean", n |-> IF b THEN 1 ELSE 0, half |-> FALSE, s |-> <<>>]

JNum(k) == [t |-> "number", n |-> k, half |-> FALSE, s |-> <<>>]

JHalf(k) == [t |-> "number", n |-> k, half |-> TRUE, s |-> <<>>]

JStr(str) == [t |-> "string", n |-> 0, half |-> FALSE, s |-> str]

\* The result of Number(v): NaN, or the number n (+ 1/2 when half).
NaN == [nan |-> TRUE, n |-> 0, half |-> FALSE]

Num(k, h) == [nan |-> FALSE, n |-> k, half |-> h]

\* Variant: only the C0 part of the exclusion set.
CONTROL_CHAR_REGEX_C0Only(c) ==
    \/ c \in 0..8
    \/ c \in {11, 12}
    \/ c \in 14..31

\* /[\u0000-\u0008\u000B\u000C\u000E-\u001F\u007F-\u009F]/
CONTROL_CHAR_REGEX(c) ==
    \/ c \in 0..8
    \/ c \in {11, 12}
    \/ c \in 14..31
    \/ c \in 127..159

\* WhiteSpace and LineTerminator code units, as String.prototype.trim reads them.
IsWhiteSpace(c) ==
    \/ c \in {9, 10, 11, 12, 13, 32, 160, 5760}
    \/ c \in 8192..8202
    \/ c \in {8232, 8233, 8239, 8287, 12288, 65279}

IsDigit(c) == c \in 48..57

SetMin(S) == CHOOSE x \in S : \A y \in S : x <= y

SetMax(S) == CHOOSE x \in S : \A y \in S : x >= y

\* String.prototype.trim
trim(str) ==
    LET keep == {i \in 1..Len(str) : ~IsWhiteSpace(str[i])}
    IN  IF keep = {} THEN <<>> ELSE SubSeq(str, SetMin(keep), SetMax(keep))

\* String.prototype.slice(0, maxLength), maxLength >= 0
slice(str, maxLength) ==
    SubSeq(str, 1, IF Len(str) < maxLength THEN Len(str) ELSE maxLength)

RECURSIVE DecimalValue(_)
DecimalValue(str) ==
    IF str = <<>> THEN 0
    ELSE 10 * DecimalValue(SubSeq(str, 1, Len(str) - 1)) + (str[Len(str)] - 48)

\* Number(v).  Of string literals only the decimal digit strings (and the empty
\* string) are read as numbers; every other text of the model's alphabet is NaN.
ToNumber(v) ==
    CASE v.t = "undefined" -> NaN
      [] v.t = "null" -> Num(0, FALSE)
      [] v.t = "boolean" -> Num(v.n, FALSE)
      [] v.t = "number" -> Num(v.n, v.half)
      [] v.t = "string" ->
            LET body == trim(v.s)
            IN  IF body = <<>> THEN Num(0, FALSE)
                ELSE IF \A i \in 1..Len(body) : IsDigit(body[i])
                     THEN Num(DecimalValue(body), FALSE)
                     ELSE NaN

\* Truthiness of a JSON value.
IsTruthy(v) ==
    CASE v.t = "undefined" -> FALSE
      [] v.t = "null" -> FALSE
      [] v.t = "boolean" -> v.n = 1
      [] v.t = "number" -> v.n # 0 \/ v.half
      [] v.t = "string" -> v.s # <<>>

RECURSIVE Digits(_)
Digits(k) ==
    IF k < 10 THEN <<48 + k>> ELSE Digits(k \div 10) \o <<48 + (k % 10)>>

\* `${v}` for the values a template literal of the handlers can meet
\* (numbers of the model are not negative).
TemplateString(v) ==
    CASE v.t = "string" -> v.s
      [] v.t = "number" -> Digits(v.n) \o (IF v.half THEN <<46, 53>> ELSE <<>>)
      [] v.t = "boolean" ->
            IF v.n = 1 THEN <<116, 114, 117, 101>> ELSE <<102, 97, 108, 115, 101>>
      [] v.t = "null" -> <<110, 117, 108, 108>>
      [] v.t = "undefined" -> <<117, 110, 100, 101, 102, 105, 110, 101, 100>>

\* 'unknown'
UnknownStr == <<117, 110, 107, 110, 111, 119, 110>>

\* ---------------------------------------------------------------- sanitizer

toCleanString(value) == IF value.t = "string" THEN value.s ELSE <<>>

IsKept(c) == ~CONTROL_CHAR_REGEX(c)

stripControlChars(value) == SelectSeq(value, IsKept)

sanitizeText(raw, maxLength) ==
    LET cleaned == stripControlChars(toCleanString(raw))
    IN  slice(trim(cleaned), maxLength)

isValidRating(rating) ==
    /\ ~rating.nan
    /\ ~rating.half
    /\ rating.n >= 1
    /\ rating.n <= 5

\* -------------------------------------------------------------------- state

VARIABLES
    env,               \* process.env, read once at startup
    now,               \* Date.now()
    lastAlertAt,       \* time of the last alert that passed the throttle
    masterClickCache,  \* Map: dedup key -> time of the last recorded click
    req,               \* the handler activations in flight and their responses
    recorded,          \* history: dedup key -> time of its last recorded click
    alerts,            \* history: the times alert deliveries were attempted
    sample,            \* a text under the sanitizer: input, limit, outputs
    storage,           \* localStorage item 'hataMasazhuReview' of the device
    tab,               \* the pages of the site open on the device
    device,            \* the browser: navigator.sendBeacon, and the history
                       \* of the google-clicks sent with the stored review
    timer,             \* stopwatch of the deliver call of slot 1
    hits               \* the stores of the rate limiters: the requests of
                       \* the client counted in the current window

vars == <<env, now, lastAlertAt, masterClickCache, req, recorded, alerts,
          sample, storage, tab, device, timer, hits>>

\* The state of the server process.
server == <<env, now, lastAlertAt, masterClickCache, req, recorded, alerts, timer,
           hits>>

\* Two handler activations may be in flight at once.
Reqs == {1, 2}

\* The failures telegramClient.post rejects with (AxiosError): a client-side
\* timeout, a connection-level failure, and an HTTP error status.
TimeoutError == [code |-> "ECONNABORTED", response |-> FALSE]

NetworkError == [code |-> "ECONNRESET", response |-> FALSE]

HttpError == [code |-> "ERR_BAD_RESPONSE", response |-> TRUE]

AxiosErrors == {TimeoutError, NetworkError, HttpError}

\* The plain Error thrown when the Telegram configuration is missing.
ConfigError == [code |-> "none", response |-> FALSE]

NoError == [code |-> "", response |-> FALSE]

\* One call of sendTelegramMessage ("message" for the handler's own message,
\* "alert" for sendServerAlert's): how it ended, the POSTs it made so far, and
\* the error its last failed POST (or its configuration check) ended with.
NoCall == [which |-> "none", outcome |-> "none", posts |-> 0, lastError |-> NoError]

IdleReq ==
    [pc |-> "idle", kind |-> "none",
     name |-> Undefined, rating |-> Undefined, reason |-> Undefined,
     master |-> Undefined, ip |-> <<>>, key |-> <<>>,
     numericRating |-> NaN,
     call |-> NoCall, attempt |-> 0,
     failed |-> FALSE, alertCalls |-> 0,
     status |-> 0, deduped |-> FALSE, redirectUrl |-> "", error |-> ""]

telegramBotToken == env.TELEGRAM_BOT_TOKEN

telegramChatId == env.TELEGRAM_CHAT_ID

googleReviewUrl == env.GOOGLE_REVIEW_URL

isProd == env.NODE_ENV = "production"

\* Variant: the opt-in flag is not read.
alertsEnabled_ProdOnly == isProd

alertsEnabled == isProd /\ env.ERROR_ALERTS_ENABLED = "1"

Environments ==
    [TELEGRAM_BOT_TOKEN : {"", "token"},
     TELEGRAM_CHAT_ID : {"", "chat"},
     GOOGLE_REVIEW_URL : {"", "https://g.page/r/review"},
     NODE_ENV : {"production", "development"},
     ERROR_ALERTS_ENABLED : {"1", "0"}]

\* No text is under the sanitizer.
NoSample ==
    [raw |-> Undefined, maxLength |-> 0, applied |-> 0, first |-> <<>>, second |-> <<>>]

\* localStorage.getItem(STORAGE_KEY) === null.  An item that is present
\* parses as JSON or not; one that parses holds rating, redirectUrl ("" for
\* null), submittedAt (0 when missing or not a date) and the two click flags.
NoItem ==
    [present |-> FALSE, parses |-> TRUE, rating |-> 0, redirectUrl |-> "",
     submittedAt |-> 0, googleClicked |-> FALSE, masterClicked |-> FALSE]

\* No POST /api/review of a page is in flight.
NoPayload == [name |-> <<>>, rating |-> 0, reason |-> <<>>]

\* No click request of a page is in flight.
NoClick == [pending |-> FALSE, stored |-> NoItem]

\* Two pages of the site may be open on the device.
Tabs == {1, 2}

\* A page that is not open.  An open review page holds the script's
\* selectedRating (0 for null), formLocked and googleClickSent,
\* submitBtn.disabled, the kind of message in the status line, whether the
\* reward banner is shown, and the payload of its fetch in
\* flight; an open masters page holds masterClickSent.  Either holds the
\* stored review captured by its click request in flight.
ClosedTab ==
    [pc |-> "closed", selectedRating |-> 0, formLocked |-> FALSE,
     submitDisabled |-> FALSE, status |-> "", payload |-> NoPayload,
     reward |-> FALSE, googleClickSent |-> FALSE, masterClickSent |-> FALSE,
     click |-> NoClick]

\* A browser with navigator.sendBeacon that has sent no click.
NoClicks == [sendBeacon |-> TRUE, googleClicks |-> 0]

\* No wait of a deliver call has been timed.  The stopwatch holds the wait it
\* is timing (the number of the POST, and whether the call awaits that POST or
\* the sleep after it), the time spent in that wait and in the call so far.
NoTimer == [posts |-> 0, pc |-> "idle", waited |-> 0, blocked |-> 0]

\* The stores of reviewLimiter and clickLimiter hold no request.
NoHits == [review |-> 0, click |-> 0]

\* The server process after startup.
Startup(environments) ==
    /\ env \in environments
    /\ now = StartTime
    /\ lastAlertAt = 0
    /\ masterClickCache = [k \in {} |-> 0]
    /\ req = [i \in Reqs |-> IdleReq]
    /\ recorded = [k \in {} |-> 0]
    /\ alerts = <<>>
    /\ timer = NoTimer
    /\ hits = NoHits

\* A device that holds no review and has no page open.
FreshDevice ==
    /\ storage = NoItem
    /\ tab = [t \in Tabs |-> ClosedTab]
    /\ device = NoClicks

\* The server after startup, with no page open and nothing under the sanitizer.
InitIn(environments) ==
    /\ Startup(environments)
    /\ sample = NoSample
    /\ FreshDevice

\* ---------------------------------------------------------- delivery client

\* Variant: every failure is retried.
shouldRetryTelegram_Always(error) == TRUE

shouldRetryTelegram(error) ==
    \/ error.code = "ECONNABORTED"
    \/ ~error.response

\* Variant: && for ||.
TelegramConfigMissing_Both == telegramBotToken = "" /\ telegramChatId = ""

\* if (!telegramBotToken || !telegramChatId)
TelegramConfigMissing == telegramBotToken = "" \/ telegramChatId = ""

\* telegramClient.post(endpoint, payload): one more POST of the call in flight.
Post(r) ==
    [r EXCEPT !.pc = "posting", !.call.posts = @ + 1]

\* throw new Error('Telegram configuration is missing. ...')
ThrowConfigError(r, which) ==
    [r EXCEPT !.call = [which |-> which, outcome |-> "raised", posts |-> 0,
                        lastError |-> ConfigError]]

\* sendTelegramMessage up to its first suspension: it throws at once when the
\* configuration is missing, and else enters sendTelegramWithRetry (attempt = 0)
\* and awaits the first POST.
sendTelegramMessage(r, which) ==
    IF TelegramConfigMissing
    THEN ThrowConfigError(r, which)
    ELSE Post([r EXCEPT !.attempt = 0,
                        !.call = [which |-> which, outcome |-> "pending",
                                  posts |-> 0, lastError |-> NoError]])

\* sendTelegramNotification: its own configuration check, the message, the send.
sendTelegramNotification(r) ==
    IF TelegramConfigMissing
    THEN ThrowConfigError(r, "message")
    ELSE sendTelegramMessage(r, "message")

\* res.status(status).json(...)
Respond(r, status, error) ==
    [r EXCEPT !.pc = "responded", !.status = status, !.error = error]

\* --------------------------------------------------------- alert throttle

\* The outcome of a handler step: the request, the throttle stamp, and the
\* history of alert deliveries.
Out(r, last, sent) == [req |-> r, lastAlertAt |-> last, alerts |-> sent]

\* Variant: the throttle stamp is not updated.
sendServerAlert_NoStamp(r, last, sent, t) ==
    IF ~alertsEnabled THEN Out(r, last, sent)
    ELSE IF t - last < ALERT_MIN_INTERVAL_MS THEN Out(r, last, sent)
    ELSE Out(sendTelegramMessage([r EXCEPT !.alertCalls = @ + 1], "alert"),
             last, Append(sent, t))

\* Variant: <= for <.
sendServerAlert_Strict(r, last, sent, t) ==
    IF ~alertsEnabled THEN Out(r, last, sent)
    ELSE IF t - last <= ALERT_MIN_INTERVAL_MS THEN Out(r, last, sent)
    ELSE Out(sendTelegramMessage([r EXCEPT !.alertCalls = @ + 1], "alert"),
             t, Append(sent, t))

\* Variant: no throttle.
sendServerAlert_Unthrottled(r, last, sent, t) ==
    IF ~alertsEnabled THEN Out(r, last, sent)
    ELSE Out(sendTelegramMessage([r EXCEPT !.alertCalls = @ + 1], "alert"),
             t, Append(sent, t))

\* sendServerAlert up to its first suspension, called at time t.
sendServerAlert(r, last, sent, t) ==
    IF ~alertsEnabled THEN Out(r, last, sent)
    ELSE IF t - last < ALERT_MIN_INTERVAL_MS THEN Out(r, last, sent)
    ELSE Out(sendTelegramMessage([r EXCEPT !.alertCalls = @ + 1], "alert"),
             t, Append(sent, t))

\* Variant: the catch block answers success.
AlertReturned_Success(r) == Respond(r, 200, "")

\* Variant: the catch block sends no response.
AlertReturned_Silent(r) == [r EXCEPT !.pc = "catch"]

\* sendServerAlert has returned: the handler's catch block sends the generic 500.
AlertReturned(r) == Respond(r, 500, "generic")

\* Variant: no try/catch around the alert's delivery: the handler's catch block
\* throws, its promise rejects and no response is sent.
AlertFailed_Rethrow(r) == [r EXCEPT !.pc = "rejected"]

\* catch (e) { console.warn('Failed to send server alert to Telegram', ...) }:
\* the failure of the alert's delivery is logged and sendServerAlert returns.
AlertFailed(r) == AlertReturned(r)

\* The catch block of a handler: await sendServerAlert(...), then the 500.
HandlerCatch(r, last, sent, t) ==
    LET a == sendServerAlert([r EXCEPT !.pc = "catch", !.failed = TRUE], last, sent, t)
    IN  IF a.req.pc = "posting" THEN a
        ELSE IF a.req.call.which = "alert" /\ a.req.call.outcome = "raised"
        THEN Out(AlertFailed(a.req), a.lastAlertAt, a.alerts)
        ELSE Out(AlertReturned(a.req), a.lastAlertAt, a.alerts)

\* A handler's try block after `await sendTelegram...(...)` was entered: the
\* handler is suspended on the POST, or the call threw and the catch block runs.
AwaitSend(r, last, sent, t) ==
    IF r.pc = "posting" THEN Out(r, last, sent)
    ELSE HandlerCatch(r, last, sent, t)

\* ------------------------------------------------------------- dedup cache

\* req.headers['x-forwarded-for']?.split(',')[0]?.trim()
\*   || req.socket.remoteAddress || 'unknown'
ClientIp(xff, remote) ==
    LET commas == {j \in 1..Len(xff.s) : xff.s[j] = 44}
        first == IF commas = {} THEN xff.s
                 ELSE SubSeq(xff.s, 1, SetMin(commas) - 1)
        forwarded == IF xff.t = "string" THEN trim(first) ELSE <<>>
    IN  IF forwarded # <<>> THEN forwarded
        ELSE IF IsTruthy(remote) THEN remote.s
        ELSE UnknownStr

\* `${ip}::${master || 'unknown'}`
DedupKey(ip, master) ==
    ip \o <<58, 58>> \o (IF IsTruthy(master) THEN TemplateString(master) ELSE UnknownStr)

\* Variant: > for <.
IsDuplicate_Inverted(cache, key, t) ==
    /\ key \in DOMAIN cache
    /\ cache[key] # 0
    /\ t - cache[key] > MASTER_CLICK_DEDUP_MS

\* Variant: <= for <.
IsDuplicate_Inclusive(cache, key, t) ==
    /\ key \in DOMAIN cache
    /\ cache[key] # 0
    /\ t - cache[key] <= MASTER_CLICK_DEDUP_MS

\* prev && now - prev < MASTER_CLICK_DEDUP_MS, with prev = masterClickCache.get(key)
IsDuplicate(cache, key, t) ==
    /\ key \in DOMAIN cache
    /\ cache[key] # 0
    /\ t - cache[key] < MASTER_CLICK_DEDUP_MS

\* masterClickCache.set(key, now)
CacheSet(cache, key, t) ==
    [k \in DOMAIN cache \cup {key} |-> IF k = key THEN t ELSE cache[k]]

\* Variant: >= for >.
CacheSweep_Inclusive(cache, t) ==
    [k \in {x \in DOMAIN cache : ~(t - cache[x] >= MASTER_CLICK_DEDUP_MS)} |-> cache[k]]

\* Variant: every entry older than the insert is deleted.
CacheSweep_Eager(cache, t) ==
    [k \in {x \in DOMAIN cache : ~(t - cache[x] > 0)} |-> cache[k]]

\* for (const [k, t] of masterClickCache)
\*   if (now - t > MASTER_CLICK_DEDUP_MS) masterClickCache.delete(k)
CacheSweep(cache, t) ==
    [k \in {x \in DOMAIN cache : ~(t - cache[x] > MASTER_CLICK_DEDUP_MS)} |-> cache[k]]

\* Variant: the key is not recorded before the handler suspends.
CacheRecord_Deferred(cache, key, t) == cache

\* The insert with its best-effort cleanup.
CacheRecord(cache, key, t) ==
    LET set == CacheSet(cache, key, t)
    IN  IF Cardinality(DOMAIN set) > CLEANUP_SIZE THEN CacheSweep(set, t) ELSE set

\* ---------------------------------------------------------------- handlers

\* Variant: <= 5 for < 5.
ReviewRejection_Inclusive(numericRating, sanitizedName, sanitizedReason) ==
    IF ~isValidRating(numericRating)
    THEN "Rating must be an integer between 1 and 5."
    ELSE IF sanitizedName = <<>>
    THEN "Name is required."
    ELSE IF numericRating.n <= 5 /\ sanitizedReason = <<>>
    THEN "Please provide a short note about your experience."
    ELSE ""

\* Variant: the name is checked before the rating.
ReviewRejection_NameFirst(numericRating, sanitizedName, sanitizedReason) ==
    IF sanitizedName = <<>>
    THEN "Name is required."
    ELSE IF ~isValidRating(numericRating)
    THEN "Rating must be an integer between 1 and 5."
    ELSE IF numericRating.n < 5 /\ sanitizedReason = <<>>
    THEN "Please provide a short note about your experience."
    ELSE ""

\* The decision of POST /api/review before any delivery: the 400 it answers
\* with, or "" when the submission is valid.
ReviewRejection(numericRating, sanitizedName, sanitizedReason) ==
    IF ~isValidRating(numericRating)
    THEN "Rating must be an integer between 1 and 5."
    ELSE IF sanitizedName = <<>>
    THEN "Name is required."
    ELSE IF numericRating.n < 5 /\ sanitizedReason = <<>>
    THEN "Please provide a short note about your experience."
    ELSE ""

\* The step of request i ends with outcome out.
Step(i, out) ==
    /\ req' = [req EXCEPT ![i] = out.req]
    /\ lastAlertAt' = out.lastAlertAt
    /\ alerts' = out.alerts

\* The handler of POST /api/review, from the arrival of the request to its
\* first suspension.
ReviewHandler(i, name, rating, reason) ==
    /\ req[i].pc = "idle"
    /\ LET numericRating == ToNumber(rating)
           sanitizedName == sanitizeText(name, MAX_NAME_LENGTH)
           sanitizedReason == sanitizeText(reason, MAX_REASON_LENGTH)
           rejection == ReviewRejection(numericRating, sanitizedName, sanitizedReason)
           r == [req[i] EXCEPT !.kind = "review",
                               !.name = name, !.rating = rating, !.reason = reason,
                               !.numericRating = numericRating]
       IN  Step(i, IF rejection # ""
                   THEN Out(Respond(r, 400, rejection), lastAlertAt, alerts)
                   ELSE AwaitSend(sendTelegramNotification(r), lastAlertAt, alerts, now))
    /\ UNCHANGED <<env, now, masterClickCache, recorded, sample, storage, tab, device,
                   timer>>

\* POST /api/review with the store of reviewLimiter left out.
PostReview(i, name, rating, reason) ==
    /\ ReviewHandler(i, name, rating, reason)
    /\ UNCHANGED hits

\* The handler of POST /api/review/google-click, to its first suspension.
\* The name only enters the message text.
GoogleClickHandler(i, name) ==
    /\ req[i].pc = "idle"
    /\ LET guestName == sanitizeText(name, MAX_NAME_LENGTH)
           r == [req[i] EXCEPT !.kind = "google-click"]
       IN  Step(i, AwaitSend(sendTelegramMessage(r, "message"), lastAlertAt, alerts, now))
    /\ UNCHANGED <<env, now, masterClickCache, recorded, sample, storage, tab, device,
                   timer>>

\* POST /api/review/google-click with the store of clickLimiter left out.
PostGoogleClick(i, name) ==
    /\ GoogleClickHandler(i, name)
    /\ UNCHANGED hits

\* Variant: a suppressed click refreshes the time of its key.
PostMasterClick_Refresh(i, xff, remote, master) ==
    /\ req[i].pc = "idle"
    /\ LET ip == ClientIp(xff, remote)
           key == DedupKey(ip, master)
           r == [req[i] EXCEPT !.kind = "master-click",
                               !.master = master, !.ip = ip, !.key = key]
       IN  IF IsDuplicate(masterClickCache, key, now)
           THEN /\ Step(i, Out([Respond(r, 200, "") EXCEPT !.deduped = TRUE],
                               lastAlertAt, alerts))
                /\ masterClickCache' = CacheSet(masterClickCache, key, now)
                /\ UNCHANGED recorded
           ELSE /\ masterClickCache' = CacheRecord(masterClickCache, key, now)
                /\ recorded' = [k \in DOMAIN recorded \cup {key} |->
                                   IF k = key THEN now ELSE recorded[k]]
                /\ Step(i, AwaitSend(sendTelegramMessage(r, "message"),
                                     lastAlertAt, alerts, now))
    /\ UNCHANGED <<env, now, sample, storage, tab, device, timer, hits>>

\* The handler of POST /api/review/master-click, to its first suspension.
\* Name and rating only enter the message text.
MasterClickHandler(i, xff, remote, master) ==
    /\ req[i].pc = "idle"
    /\ LET ip == ClientIp(xff, remote)
           key == DedupKey(ip, master)
           r == [req[i] EXCEPT !.kind = "master-click",
                               !.master = master, !.ip = ip, !.key = key]
       IN  IF IsDuplicate(masterClickCache, key, now)
           THEN /\ Step(i, Out([Respond(r, 200, "") EXCEPT !.deduped = TRUE],
                               lastAlertAt, alerts))
                /\ UNCHANGED <<masterClickCache, recorded>>
           ELSE /\ masterClickCache' = CacheRecord(masterClickCache, key, now)
                /\ recorded' = [k \in DOMAIN recorded \cup {key} |->
                                   IF k = key THEN now ELSE recorded[k]]
                /\ Step(i, AwaitSend(sendTelegramMessage(r, "message"),
                                     lastAlertAt, alerts, now))
    /\ UNCHANGED <<env, now, sample, storage, tab, device, timer>>

\* POST /api/review/master-click with the store of clickLimiter left out.
PostMasterClick(i, xff, remote, master) ==
    /\ MasterClickHandler(i, xff, remote, master)
    /\ UNCHANGED hits

\* A request whose body express.json() cannot parse: the error middleware
\* alerts and answers 500.
RouteError(i) ==
    /\ req[i].pc = "idle"
    /\ Step(i, HandlerCatch([req[i] EXCEPT !.kind = "route-error"],
                            lastAlertAt, alerts, now))
    /\ UNCHANGED <<env, now, masterClickCache, recorded, sample, storage, tab, device, timer, hits>>

\* Variant: the rating is not compared with 5.
RespondSuccess_AnyRating(r) ==
    IF r.kind = "review" /\ googleReviewUrl # ""
    THEN [Respond(r, 200, "") EXCEPT !.redirectUrl = googleReviewUrl]
    ELSE Respond(r, 200, "")

\* Variant: a delivery that needed a retry is answered as a failure.
RespondSuccess_FirstTryOnly(r) ==
    IF r.attempt > 0 THEN Respond([r EXCEPT !.failed = TRUE], 500, "generic")
    ELSE IF r.kind = "review" /\ r.numericRating = Num(5, FALSE) /\ googleReviewUrl # ""
    THEN [Respond(r, 200, "") EXCEPT !.redirectUrl = googleReviewUrl]
    ELSE Respond(r, 200, "")

\* The success response of a handler whose delivery has succeeded.
RespondSuccess(r) ==
    IF r.kind = "review" /\ r.numericRating = Num(5, FALSE) /\ googleReviewUrl # ""
    THEN [Respond(r, 200, "") EXCEPT !.redirectUrl = googleReviewUrl]
    ELSE Respond(r, 200, "")

\* The POST in flight succeeds: sendTelegramWithRetry returns.
PostSucceeds(i) ==
    /\ req[i].pc = "posting"
    /\ LET r == [req[i] EXCEPT !.call.outcome = "ok"]
       IN  req' = [req EXCEPT ![i] = IF r.call.which = "alert" THEN AlertReturned(r)
                                     ELSE RespondSuccess(r)]
    /\ UNCHANGED <<env, now, lastAlertAt, masterClickCache, recorded, alerts,
                   sample, storage, tab, device, timer, hits>>

\* Variant: < for <=.
canRetry_OffByOne(attempt, error) ==
    attempt < TELEGRAM_RETRY_ATTEMPTS /\ shouldRetryTelegram(error)

\* attempt <= TELEGRAM_RETRY_ATTEMPTS && shouldRetryTelegram(error)
canRetry(attempt, error) ==
    attempt <= TELEGRAM_RETRY_ATTEMPTS /\ shouldRetryTelegram(error)

\* Variant: a master-click whose delivery raises takes its key out of the cache.
PostFails_Forget(i, error) ==
    /\ req[i].pc = "posting"
    /\ LET attempt == req[i].attempt + 1
           r == [req[i] EXCEPT !.attempt = attempt, !.call.lastError = error]
           thrown == [r EXCEPT !.call.outcome = "raised"]
       IN  /\ Step(i, IF canRetry(attempt, error)
                      THEN Out(IF TELEGRAM_RETRY_DELAY_MS > 0
                               THEN [r EXCEPT !.pc = "sleeping"]
                               ELSE Post(r),
                               lastAlertAt, alerts)
                      ELSE IF r.call.which = "alert"
                      THEN Out(AlertFailed(thrown), lastAlertAt, alerts)
                      ELSE HandlerCatch(thrown, lastAlertAt, alerts, now))
           /\ masterClickCache' =
                 IF ~canRetry(attempt, error) /\ r.kind = "master-click"
                 THEN [k \in DOMAIN masterClickCache \ {r.key} |-> masterClickCache[k]]
                 ELSE masterClickCache
    /\ UNCHANGED <<env, now, recorded, sample, storage, tab, device, timer, hits>>

\* Variant: an alert whose delivery raises resets the throttle stamp.
PostFails_Rollback(i, error) ==
    /\ req[i].pc = "posting"
    /\ LET attempt == req[i].attempt + 1
           r == [req[i] EXCEPT !.attempt = attempt, !.call.lastError = error]
           thrown == [r EXCEPT !.call.outcome = "raised"]
       IN  Step(i, IF canRetry(attempt, error)
                   THEN Out(IF TELEGRAM_RETRY_DELAY_MS > 0
                            THEN [r EXCEPT !.pc = "sleeping"]
                            ELSE Post(r),
                            lastAlertAt, alerts)
                   ELSE IF r.call.which = "alert"
                   THEN Out(AlertFailed(thrown), 0, alerts)
                   ELSE HandlerCatch(thrown, lastAlertAt, alerts, now))
    /\ UNCHANGED <<env, now, masterClickCache, recorded, sample, storage, tab, device, timer, hits>>

\* The POST in flight fails with `error`: the catch of sendTelegramWithRetry.
PostFails(i, error) ==
    /\ req[i].pc = "posting"
    /\ LET attempt == req[i].attempt + 1
           r == [req[i] EXCEPT !.attempt = attempt, !.call.lastError = error]
           thrown == [r EXCEPT !.call.outcome = "raised"]
       IN  Step(i, IF canRetry(attempt, error)
                   THEN Out(IF TELEGRAM_RETRY_DELAY_MS > 0
                            THEN [r EXCEPT !.pc = "sleeping"]
                            ELSE Post(r),
                            lastAlertAt, alerts)
                   ELSE IF r.call.which = "alert"
                   THEN Out(AlertFailed(thrown), lastAlertAt, alerts)
                   ELSE HandlerCatch(thrown, lastAlertAt, alerts, now))
    /\ UNCHANGED <<env, now, masterClickCache, recorded, sample, storage, tab, device, timer, hits>>

\* await sleep(TELEGRAM_RETRY_DELAY_MS) is over: the loop POSTs again.
SleepDone(i) ==
    /\ req[i].pc = "sleeping"
    /\ req' = [req EXCEPT ![i] = Post(req[i])]
    /\ UNCHANGED <<env, now, lastAlertAt, masterClickCache, recorded, alerts,
                   sample, storage, tab, device, timer, hits>>

\* The response has been sent: the activation is over.
Close(i) ==
    /\ req[i].pc = "responded"
    /\ req' = [req EXCEPT ![i] = IdleReq]
    /\ UNCHANGED <<env, now, lastAlertAt, masterClickCache, recorded, alerts,
                   sample, storage, tab, device, timer, hits>>

\* Time passes.
Tick ==
    /\ now < MaxTime
    /\ now' = now + 1
    /\ UNCHANGED <<env, lastAlertAt, masterClickCache, req, recorded, alerts,
                   sample, storage, tab, device, timer, hits>>

\* ------------------------------------------------------------------ inputs

\* "a"
Names == {JStr(<<97>>)}

Ratings == {JNum(2), JNum(5)}

\* empty
Reasons == {JStr(<<>>)}

\* req.socket.remoteAddress "9"
RemoteAddresses == {JStr(<<57>>)}

\* The clicks of one client on one link: no X-Forwarded-For, no master.
OneClick == {<<Undefined, Undefined>>}

\* X-Forwarded-For " 1,2" (client "1") without master and with master "A";
\* no X-Forwarded-For (client "9") with master "A".
Clicks ==
    {<<JStr(<<32, 49, 44, 50>>), Undefined>>,
     <<JStr(<<32, 49, 44, 50>>), JStr(<<65>>)>>,
     <<Undefined, JStr(<<65>>)>>}

\* absent, null, empty, blank, U+0001 then a blank, "a", " a"
ReviewNames ==
    {Undefined, Null, JStr(<<>>), JStr(<<32>>), JStr(<<1, 32>>), JStr(<<97>>),
     JStr(<<32, 97>>)}

\* 1, 4, 5, 0, 6, 4.5, absent, null, true, false, "5", "a"
ReviewRatings ==
    {JNum(1), JNum(4), JNum(5), JNum(0), JNum(6), JHalf(4), Undefined, Null,
     JBool(TRUE), JBool(FALSE), JStr(<<53>>), JStr(<<97>>)}

\* absent, null, 7, true, empty, blank and tab, U+0001, U+0085 then a blank,
\* "a", tab "a" U+0001
ReviewReasons ==
    {Undefined, Null, JNum(7), JBool(TRUE), JStr(<<>>), JStr(<<32, 9>>),
     JStr(<<1>>), JStr(<<133, 32>>), JStr(<<97>>), JStr(<<9, 97, 1>>)}

\* --------------------------------------------------------- specifications

\* The steps every specification shares: deliveries settle, timers fire,
\* responses complete.
Settle(i) ==
    \/ PostSucceeds(i)
    \/ \E error \in AxiosErrors : PostFails(i, error)
    \/ SleepDone(i)
    \/ Close(i)

\* The server: every endpoint, the clicks of one client, every environment
\* with a review URL.
Init == InitIn({e \in Environments : e.GOOGLE_REVIEW_URL # ""})

Next ==
    \/ \E i \in Reqs, name \in Names, rating \in Ratings, reason \in Reasons :
          PostReview(i, name, rating, reason)
    \/ \E i \in Reqs, name \in Names : PostGoogleClick(i, name)
    \/ \E i \in Reqs, c \in OneClick, remote \in RemoteAddresses :
          PostMasterClick(i, c[1], remote, c[2])
    \/ \E i \in Reqs : RouteError(i)
    \/ \E i \in Reqs : Settle(i)
    \/ Tick

Spec == Init /\ [][Next]_vars

\* The dedup cache: clicks of several clients and masters, alerting off.
DedupInit ==
    InitIn({e \in Environments :
               /\ e.NODE_ENV = "development"
               /\ e.ERROR_ALERTS_ENABLED = "0"
               /\ e.GOOGLE_REVIEW_URL = ""
               /\ e.TELEGRAM_CHAT_ID = "chat"})

DedupNext ==
    \/ \E i \in Reqs, c \in Clicks, remote \in RemoteAddresses :
          PostMasterClick(i, c[1], remote, c[2])
    \/ \E i \in Reqs : Settle(i)
    \/ Tick

DedupSpec == DedupInit /\ [][DedupNext]_vars

\* Review submissions one at a time, over the wide input sets, with the clicks
\* of one client in between.
ReviewNext ==
    \/ \E name \in ReviewNames, rating \in ReviewRatings, reason \in ReviewReasons :
          PostReview(1, name, rating, reason)
    \/ \E c \in OneClick, remote \in RemoteAddresses :
          PostMasterClick(1, c[1], remote, c[2])
    \/ Settle(1)

ReviewInit == InitIn(Environments)

ReviewSpec == ReviewInit /\ [][ReviewNext]_vars

\* The growth of the dedup cache: clicks of one client on more links than the
\* sweep threshold, one request at a time, every delivery succeeding.
Masters == {JNum(k) : k \in 1..CLEANUP_SIZE + 2}

CacheInit == DedupInit

CacheNext ==
    \/ \E master \in Masters, remote \in RemoteAddresses :
          PostMasterClick(1, Undefined, remote, master)
    \/ PostSucceeds(1)
    \/ Close(1)
    \/ Tick

CacheSpec == CacheInit /\ [][CacheNext]_vars

\* ---------------------------------------------------- the sanitizer alone

\* Code units of the texts: U+0001, tab, line feed, carriage return, blank,
\* "a", DEL, U+0085.
Alphabet == {1, 9, 10, 13, 32, 97, 127, 133}

Texts == UNION {[1..k -> Alphabet] : k \in 0..MaxTextLen}

\* What sanitizeText may be handed: absent, null, a number, a boolean, a text.
SanitizerInputs ==
    {Undefined, Null, JNum(7), JBool(TRUE)} \cup {JStr(str) : str \in Texts}

\* A text and a maxLength are chosen.
SanitizeInit ==
    /\ Startup({e \in Environments :
                   /\ e.TELEGRAM_BOT_TOKEN = "" /\ e.TELEGRAM_CHAT_ID = ""
                   /\ e.GOOGLE_REVIEW_URL = "" /\ e.NODE_ENV = "development"
                   /\ e.ERROR_ALERTS_ENABLED = "0"})
    /\ FreshDevice
    /\ sample \in [raw : SanitizerInputs, maxLength : 0..MaxLimit,
                    applied : {0}, first : {<<>>}, second : {<<>>}]

\* sanitizeText(raw, maxLength)
SanitizeOnce ==
    /\ sample.applied = 0
    /\ sample' = [sample EXCEPT !.applied = 1,
                                !.first = sanitizeText(sample.raw, sample.maxLength)]
    /\ UNCHANGED <<server, storage, tab, device>>

\* sanitizeText of the text sanitizeText returned, with the same maxLength
SanitizeAgain ==
    /\ sample.applied = 1
    /\ sample' = [sample EXCEPT !.applied = 2,
                                !.second = sanitizeText(JStr(sample.first),
                                                        sample.maxLength)]
    /\ UNCHANGED <<server, storage, tab, device>>

SanitizeNext ==
    \/ SanitizeOnce
    \/ SanitizeAgain

SanitizeSpec == SanitizeInit /\ [][SanitizeNext]_vars

\* ------------------------------------------------- the review form script

\* Variant: >= for >.
getStoredReview_Inclusive(item, t) ==
    IF ~item.present THEN [review |-> NoItem, storage |-> item]
    ELSE IF ~item.parses THEN [review |-> NoItem, storage |-> NoItem]
    ELSE IF item.submittedAt = 0 \/ t - item.submittedAt >= REVIEW_TTL_MS
    THEN [review |-> NoItem, storage |-> NoItem]
    ELSE [review |-> item, storage |-> item]

\* getStoredReview at time t: the review it returns (NoItem for null) and the
\* item it leaves in localStorage.  The item is JSON written by storeReview,
\* which JSON.parse reads back as written, and its submittedAt is an ISO
\* timestamp, which new Date(...).getTime() reads back to the millisecond.
getStoredReview(item, t) ==
    IF ~item.present THEN [review |-> NoItem, storage |-> item]
    ELSE IF ~item.parses THEN [review |-> NoItem, storage |-> NoItem]
    ELSE IF item.submittedAt = 0 \/ t - item.submittedAt > REVIEW_TTL_MS
    THEN [review |-> NoItem, storage |-> NoItem]
    ELSE [review |-> item, storage |-> item]

disableForm(page) ==
    [page EXCEPT !.formLocked = TRUE, !.submitDisabled = TRUE]

\* Variant: without the check of a 5 that has no redirect URL.
hydrateFromStorage_NoSelfCheck(page, item, t) ==
    LET got == getStoredReview(item, t)
        review == got.review
    IN  IF ~review.present THEN [tab |-> page, storage |-> got.storage]
        ELSE [tab |-> disableForm([page EXCEPT
                         !.selectedRating = review.rating,
                         !.googleClickSent = review.googleClicked,
                         !.reward = review.redirectUrl # "",
                         !.status = "already"]),
              storage |-> got.storage]

\* hydrateFromStorage on a page just opened: the page and the item it leaves.
hydrateFromStorage(page, item, t) ==
    LET got == getStoredReview(item, t)
        review == got.review
    IN  IF ~review.present THEN [tab |-> page, storage |-> got.storage]
        ELSE IF review.rating = 5 /\ review.redirectUrl = ""
        THEN [tab |-> page, storage |-> NoItem]
        ELSE [tab |-> disableForm([page EXCEPT
                         !.selectedRating = review.rating,
                         !.googleClickSent = review.googleClicked,
                         !.reward = review.redirectUrl # "",
                         !.status = "already"]),
              storage |-> got.storage]

\* The page script has run its declarations: nothing selected, nothing locked.
OpenTab == [ClosedTab EXCEPT !.pc = "ready"]

\* The page is opened: the script runs to its end, hydrateFromStorage included.
LoadPage(t) ==
    /\ tab[t].pc = "closed"
    /\ LET h == hydrateFromStorage(OpenTab, storage, now)
       IN  /\ tab' = [tab EXCEPT ![t] = h.tab]
           /\ storage' = h.storage
    /\ UNCHANGED <<server, sample, device>>

\* The page is closed or left (a reload is a close and a load); the response
\* of a fetch in flight is dropped.
CloseTab(t) ==
    /\ tab[t].pc # "closed"
    /\ tab' = [tab EXCEPT ![t] = ClosedTab]
    /\ UNCHANGED <<server, sample, storage, device>>

\* A click on a star that is not disabled: setRating(value), setStatus('').
ClickStar(t, value) ==
    /\ tab[t].pc # "closed"
    /\ ~tab[t].formLocked
    /\ tab' = [tab EXCEPT ![t].selectedRating = value, ![t].status = ""]
    /\ UNCHANGED <<server, sample, storage, device>>

\* The submit event of the form, which a disabled submit button does not
\* fire, up to the fetch: nameInput and feedbackInput hold the given texts.
Submit(t, nameInput, feedbackInput) ==
    /\ tab[t].pc = "ready"
    /\ ~tab[t].submitDisabled
    /\ LET got == getStoredReview(storage, now)
           page == tab[t]
           nameValue == trim(nameInput)
           reasonValue == trim(feedbackInput)
       IN  /\ storage' = got.storage
           /\ tab' = [tab EXCEPT ![t] =
                  IF got.review.present
                  THEN disableForm([page EXCEPT !.status = "already"])
                  ELSE IF page.selectedRating = 0 THEN [page EXCEPT !.status = "error"]
                  ELSE IF nameValue = <<>> THEN [page EXCEPT !.status = "error"]
                  ELSE IF Len(reasonValue) = 0 /\ page.selectedRating < 5
                  THEN [page EXCEPT !.status = "error"]
                  ELSE [page EXCEPT !.pc = "submitting", !.status = "",
                                    !.submitDisabled = TRUE,
                                    !.payload = [name |-> nameValue,
                                                 rating |-> page.selectedRating,
                                                 reason |-> reasonValue]]]
    /\ UNCHANGED <<server, sample, device>>

\* The body of the 200 the server answers a review of this rating with.
ReviewResult(rating) ==
    RespondSuccess([IdleReq EXCEPT !.kind = "review",
                                   !.numericRating = Num(rating, FALSE)])

\* Variant: the review is stored and the form locked whatever the response.
FetchSettles_Unchecked(t, ok, saved) ==
    /\ tab[t].pc = "submitting"
    /\ LET page == [tab[t] EXCEPT !.pc = "ready", !.payload = NoPayload]
           storedReview == [present |-> TRUE, parses |-> TRUE,
                            rating |-> tab[t].payload.rating,
                            redirectUrl |-> "",
                            submittedAt |-> now,
                            googleClicked |-> FALSE, masterClicked |-> FALSE]
       IN  /\ storage' = IF saved THEN storedReview ELSE storage
           /\ tab' = [tab EXCEPT ![t] =
                  disableForm([page EXCEPT !.status = IF ok THEN "thanks" ELSE "error",
                                           !.googleClickSent = FALSE])]
    /\ UNCHANGED <<server, sample, device>>

\* The fetch of the page settles: with a 200 (the review is stored unless
\* localStorage.setItem throws, and the form is locked), or with a failure
\* (the fetch rejects, the status is not ok, or the body is not JSON).
FetchSettles(t, ok, saved) ==
    /\ tab[t].pc = "submitting"
    /\ LET page == [tab[t] EXCEPT !.pc = "ready", !.payload = NoPayload]
           result == ReviewResult(tab[t].payload.rating)
           storedReview == [present |-> TRUE, parses |-> TRUE,
                            rating |-> tab[t].payload.rating,
                            redirectUrl |-> result.redirectUrl,
                            submittedAt |-> now,
                            googleClicked |-> FALSE, masterClicked |-> FALSE]
       IN  IF ok
           THEN /\ storage' = IF saved THEN storedReview ELSE storage
                /\ tab' = [tab EXCEPT ![t] =
                       disableForm([page EXCEPT
                          !.status = "thanks",
                          !.googleClickSent = FALSE,
                          !.reward = storedReview.redirectUrl # "",
                          !.selectedRating =
                              IF storedReview.redirectUrl # "" THEN 5 ELSE @])]
           ELSE /\ storage' = storage
                /\ tab' = [tab EXCEPT ![t] =
                       [page EXCEPT !.status = "error",
                                    !.submitDisabled = page.formLocked]]
    /\ UNCHANGED <<server, sample, device>>

\* The user clears the site's data.
ClearStorage ==
    /\ storage.present
    /\ storage' = NoItem
    /\ UNCHANGED <<server, sample, tab, device>>

\* The values of the star buttons the user clicks.
StarValues == {1, 4, 5}

\* empty, blank, "a"
FormNames == {<<>>, <<32>>, <<97>>}

\* empty, "a"
FormReasons == {<<>>, <<97>>}

\* The device: two pages, one stored review, either setting of the review URL.
ClientInit ==
    InitIn({e \in Environments :
               /\ e.TELEGRAM_BOT_TOKEN = "token" /\ e.TELEGRAM_CHAT_ID = "chat"
               /\ e.NODE_ENV = "development" /\ e.ERROR_ALERTS_ENABLED = "0"})

ClientNext ==
    \/ \E t \in Tabs : LoadPage(t)
    \/ \E t \in Tabs : CloseTab(t)
    \/ \E t \in Tabs, value \in StarValues : ClickStar(t, value)
    \/ \E t \in Tabs, nameInput \in FormNames, feedbackInput \in FormReasons :
          Submit(t, nameInput, feedbackInput)
    \/ \E t \in Tabs, ok \in BOOLEAN, saved \in BOOLEAN : FetchSettles(t, ok, saved)
    \/ ClearStorage
    \/ Tick

ClientSpec == ClientInit /\ [][ClientNext]_vars

\* ------------------------------------------- the engagement clicks, pages

\* markClicked of sendGoogleClickEvent, whose storedReview is `stored`: the
\* page, and the item left in localStorage (storeReview writes nothing when
\* localStorage.setItem throws).
markGoogleClicked(page, stored, item, saved) ==
    [tab |-> [page EXCEPT !.googleClickSent = TRUE],
     storage |-> IF stored.present /\ saved
                 THEN [stored EXCEPT !.googleClicked = TRUE]
                 ELSE item]

\* A click on the reward link, which is inside the reward banner:
\* sendGoogleClickEvent up to its return.  With navigator.sendBeacon the
\* request is queued and the click is marked at once; without it a fetch is
\* started and the click is marked when it resolves.
ClickReward(t, saved) ==
    /\ tab[t].pc = "ready"
    /\ tab[t].reward
    /\ ~tab[t].googleClickSent
    /\ device.googleClicks < MaxClicks
    /\ LET got == getStoredReview(storage, now)
           storedReview == got.review
           counted == IF storedReview.present THEN device.googleClicks + 1
                      ELSE device.googleClicks
       IN  /\ device' = [device EXCEPT !.googleClicks = counted]
           /\ IF device.sendBeacon
              THEN LET m == markGoogleClicked(tab[t], storedReview, got.storage, saved)
                   IN  /\ tab' = [tab EXCEPT ![t] = m.tab]
                       /\ storage' = m.storage
              ELSE /\ tab' = [tab EXCEPT ![t].click =
                                 [pending |-> TRUE, stored |-> storedReview]]
                   /\ storage' = got.storage
    /\ UNCHANGED <<server, sample>>

\* The fetch of the google-click settles on a page that is still open:
\* .then(() => markClicked()), or .catch with the flag of the review it read.
GoogleFetchSettles(t, ok, saved) ==
    /\ tab[t].pc = "ready"
    /\ tab[t].click.pending
    /\ LET page == [tab[t] EXCEPT !.click = NoClick]
           storedReview == tab[t].click.stored
           m == markGoogleClicked(page, storedReview, storage, saved)
       IN  IF ok
           THEN /\ tab' = [tab EXCEPT ![t] = m.tab]
                /\ storage' = m.storage
           ELSE /\ tab' = [tab EXCEPT ![t] =
                       [page EXCEPT !.googleClickSent = storedReview.googleClicked]]
                /\ storage' = storage
    /\ UNCHANGED <<server, sample, device>>

\* getStored of the masters page: the parsed item, or NoItem for null.
getStored(item) ==
    IF item.present /\ item.parses THEN item ELSE NoItem

\* The masters page is opened: masterClickSent = Boolean(getStored()?.masterClicked).
LoadMasters(t) ==
    /\ tab[t].pc = "closed"
    /\ tab' = [tab EXCEPT ![t] =
           [ClosedTab EXCEPT !.pc = "masters",
                             !.masterClickSent = getStored(storage).masterClicked]]
    /\ UNCHANGED <<server, sample, storage, device>>

\* markClicked of ping, whose stored review is `stored`.
markMasterClicked(page, stored, item, saved) ==
    [tab |-> [page EXCEPT !.masterClickSent = TRUE],
     storage |-> IF stored.present /\ saved
                 THEN [stored EXCEPT !.masterClicked = TRUE]
                 ELSE item]

\* A click on a master's link of the masters page: ping up to its return.
Ping(t, saved) ==
    /\ tab[t].pc = "masters"
    /\ ~tab[t].masterClickSent
    /\ ~tab[t].click.pending
    /\ LET stored == getStored(storage)
           m == markMasterClicked(tab[t], stored, storage, saved)
       IN  IF stored.masterClicked
           THEN /\ tab' = [tab EXCEPT ![t].masterClickSent = TRUE]
                /\ storage' = storage
           ELSE IF device.sendBeacon
           THEN /\ tab' = [tab EXCEPT ![t] = m.tab]
                /\ storage' = m.storage
           ELSE /\ tab' = [tab EXCEPT ![t].click =
                              [pending |-> TRUE, stored |-> stored]]
                /\ storage' = storage
    /\ UNCHANGED <<server, sample, device>>

\* The fetch of the master-click settles on a masters page that is still open.
PingFetchSettles(t, ok, saved) ==
    /\ tab[t].pc = "masters"
    /\ tab[t].click.pending
    /\ LET page == [tab[t] EXCEPT !.click = NoClick]
           m == markMasterClicked(page, tab[t].click.stored, storage, saved)
       IN  IF ok
           THEN /\ tab' = [tab EXCEPT ![t] = m.tab]
                /\ storage' = m.storage
           ELSE /\ tab' = [tab EXCEPT ![t] = page]
                /\ storage' = storage
    /\ UNCHANGED <<server, sample, device>>

\* The record the form script stores for a review, not yet clicked.
StoredReview(rating, url) ==
    [NoItem EXCEPT !.present = TRUE, !.rating = rating, !.redirectUrl = url,
                   !.submittedAt = StartTime]

\* What the device may hold when a page is opened: nothing, text that is
\* not JSON, a record without submittedAt, and the reviews the form script
\* stores (a 4; a 5 without and with its redirect URL).
StoredItems ==
    {NoItem,
     [NoItem EXCEPT !.present = TRUE, !.parses = FALSE],
     [StoredReview(4, "") EXCEPT !.submittedAt = 0],
     StoredReview(4, ""),
     StoredReview(5, ""),
     StoredReview(5, "https://g.page/r/review")}

\* The device after a review was stored, or with a damaged item, on a
\* browser with or without navigator.sendBeacon.
DeviceInit ==
    /\ Startup({e \in Environments :
                   /\ e.TELEGRAM_BOT_TOKEN = "token" /\ e.TELEGRAM_CHAT_ID = "chat"
                   /\ e.GOOGLE_REVIEW_URL # ""
                   /\ e.NODE_ENV = "development" /\ e.ERROR_ALERTS_ENABLED = "0"})
    /\ sample = NoSample
    /\ storage \in StoredItems
    /\ tab = [t \in Tabs |-> ClosedTab]
    /\ device \in [sendBeacon : BOOLEAN, googleClicks : {0}]

DeviceNext ==
    \/ \E t \in Tabs : LoadPage(t)
    \/ \E t \in Tabs : LoadMasters(t)
    \/ \E t \in Tabs : CloseTab(t)
    \/ \E t \in Tabs, saved \in BOOLEAN : ClickReward(t, saved)
    \/ \E t \in Tabs, ok \in BOOLEAN, saved \in BOOLEAN : GoogleFetchSettles(t, ok, saved)
    \/ \E t \in Tabs, saved \in BOOLEAN : Ping(t, saved)
    \/ \E t \in Tabs, ok \in BOOLEAN, saved \in BOOLEAN : PingFetchSettles(t, ok, saved)
    \/ Tick

DeviceSpec == DeviceInit /\ [][DeviceNext]_vars

\* -------------------------------------------------- the dedup key alone

\* The subject of a click: req.body.master, or "unknown" when it is absent.
Subject(master) == IF master = Undefined THEN JStr(UnknownStr) ELSE master

\* X-Forwarded-For "1::2" with master "3"; X-Forwarded-For "1" with master
\* "2::3", with master "3", with master "unknown" and without master.
KeyClicks ==
    {<<JStr(<<49, 58, 58, 50>>), JStr(<<51>>)>>,
     <<JStr(<<49>>), JStr(<<50, 58, 58, 51>>)>>,
     <<JStr(<<49>>), JStr(<<51>>)>>,
     <<JStr(<<49>>), JStr(UnknownStr)>>,
     <<JStr(<<49>>), Undefined>>}

KeyInit == DedupInit

\* One click per slot, every delivery succeeding: a click that is suppressed
\* was suppressed by the record of the click in the other slot.
KeyNext ==
    \/ \E i \in Reqs, c \in KeyClicks, remote \in RemoteAddresses :
          PostMasterClick(i, c[1], remote, c[2])
    \/ \E i \in Reqs : PostSucceeds(i)
    \/ Tick

KeySpec == KeyInit /\ [][KeyNext]_vars

\* ------------------------------------------- the deliver call under a clock

\* Time spent so far in the wait the deliver call of slot 1 is in: the
\* stopwatch starts anew when the call has moved on to another wait.
Waited ==
    IF timer.posts = req[1].call.posts /\ timer.pc = req[1].pc
    THEN timer.waited
    ELSE 0

\* Variant: the delay grows with the attempt.
RetryDelay_Backoff(attempt) == TELEGRAM_RETRY_DELAY_MS * (attempt + 1)

\* await sleep(TELEGRAM_RETRY_DELAY_MS): the same delay after every attempt.
RetryDelay(attempt) == TELEGRAM_RETRY_DELAY_MS

\* The longest the wait the call is in may last: the timeout of
\* telegramClient for a POST, the delay of the timer for a sleep.
WaitLimit ==
    IF req[1].pc = "posting" THEN TELEGRAM_TIMEOUT_MS
    ELSE RetryDelay(req[1].attempt)

\* d ms pass while the call awaits its POST or its sleep.
Elapse(d) ==
    /\ req[1].pc \in {"posting", "sleeping"}
    /\ Waited + d <= WaitLimit
    /\ now' = now + d
    /\ timer' = [posts |-> req[1].call.posts, pc |-> req[1].pc,
                 waited |-> Waited + d, blocked |-> timer.blocked + d]
    /\ UNCHANGED <<env, lastAlertAt, masterClickCache, req, recorded, alerts,
                   sample, storage, tab, device, hits>>

\* The response of the remote arrives before the timeout.
TimedPostSucceeds ==
    /\ Waited < TELEGRAM_TIMEOUT_MS
    /\ PostSucceeds(1)

\* The POST fails: with ECONNABORTED when the timeout of telegramClient
\* expires, with any other failure before that.
TimedPostFails(error) ==
    /\ error = TimeoutError <=> Waited = TELEGRAM_TIMEOUT_MS
    /\ PostFails(1, error)

\* The timer of sleep fires.
TimedSleepDone ==
    /\ Waited = WaitLimit
    /\ SleepDone(1)

\* The times between two events of a behaviour: a fifth of the retry delay,
\* the retry delay, the timeout.
Durations ==
    {TELEGRAM_RETRY_DELAY_MS \div 5, TELEGRAM_RETRY_DELAY_MS, TELEGRAM_TIMEOUT_MS}

\* Telegram configured, alerting off: the only deliver call of a request is
\* that of its own message.
TimedInit ==
    InitIn({e \in Environments :
               /\ e.TELEGRAM_BOT_TOKEN = "token"
               /\ e.TELEGRAM_CHAT_ID = "chat"
               /\ e.NODE_ENV = "development"
               /\ e.ERROR_ALERTS_ENABLED = "0"})

\* One google-click and its deliver call, from the first POST to the response.
TimedNext ==
    \/ \E name \in Names : PostGoogleClick(1, name)
    \/ \E d \in Durations : Elapse(d)
    \/ TimedPostSucceeds
    \/ \E error \in AxiosErrors : TimedPostFails(error)
    \/ TimedSleepDone

TimedSpec == TimedInit /\ [][TimedNext]_vars

\* ------------------------------------------- the endpoints behind limiters

\* The limiters a request passes before its handler.
Limiters == {"review", "click"}

\* rateLimit({windowMs, max}): the request is counted in the store of the
\* limiter (the count is kept up to max + 1).
Hit(limiter) ==
    [hits EXCEPT ![limiter] = IF @ > RATE_LIMIT_MAX THEN @ ELSE @ + 1]

\* The count of the request exceeds max.
OverLimit(limiter) == hits[limiter] + 1 > RATE_LIMIT_MAX

\* A request over the limit: the limiter answers 429 and the handler does
\* not run.
TooManyRequests(i, limiter) ==
    /\ req[i].pc = "idle"
    /\ OverLimit(limiter)
    /\ hits' = Hit(limiter)
    /\ req' = [req EXCEPT ![i] =
                  Respond([req[i] EXCEPT !.kind = limiter], 429, "Too many requests")]
    /\ UNCHANGED <<env, now, lastAlertAt, masterClickCache, recorded, alerts,
                   sample, storage, tab, device, timer>>

\* app.post('/api/review', reviewLimiter, ...) for a request within the limit.
LimitedReview(i, name, rating, reason) ==
    /\ ~OverLimit("review")
    /\ hits' = Hit("review")
    /\ ReviewHandler(i, name, rating, reason)

\* app.post('/api/review/google-click', clickLimiter, ...) within the limit.
LimitedGoogleClick(i, name) ==
    /\ ~OverLimit("click")
    /\ hits' = Hit("click")
    /\ GoogleClickHandler(i, name)

\* app.post('/api/review/master-click', clickLimiter, ...) within the limit.
LimitedMasterClick(i, xff, remote, master) ==
    /\ ~OverLimit("click")
    /\ hits' = Hit("click")
    /\ MasterClickHandler(i, xff, remote, master)

\* windowMs is over: the stores start again.
WindowEnds ==
    /\ hits # NoHits
    /\ hits' = NoHits
    /\ UNCHANGED <<env, now, lastAlertAt, masterClickCache, req, recorded, alerts,
                   sample, storage, tab, device, timer>>

\* The POST in flight of request i ends, one way or the other.
AttemptEnds(i) ==
    \/ PostSucceeds(i)
    \/ \E error \in AxiosErrors : PostFails(i, error)

\* Production with alerting on and Telegram configured.
LiveInit ==
    InitIn({e \in Environments :
               /\ e.TELEGRAM_BOT_TOKEN = "token"
               /\ e.TELEGRAM_CHAT_ID = "chat"
               /\ e.NODE_ENV = "production"
               /\ e.ERROR_ALERTS_ENABLED = "1"})

\* The requests of the client one at a time.
LiveNext ==
    \/ \E name \in Names, rating \in Ratings, reason \in Reasons :
          LimitedReview(1, name, rating, reason)
    \/ \E name \in Names : LimitedGoogleClick(1, name)
    \/ \E c \in OneClick, remote \in RemoteAddresses :
          LimitedMasterClick(1, c[1], remote, c[2])
    \/ \E limiter \in Limiters : TooManyRequests(1, limiter)
    \/ RouteError(1)
    \/ Settle(1)
    \/ WindowEnds

\* Every HTTP attempt to the messaging endpoint ends and every timer of sleep
\* fires.
LiveSpec ==
    /\ LiveInit
    /\ [][LiveNext]_vars
    /\ \A i \in Reqs : WF_vars(AttemptEnds(i)) /\ WF_vars(SleepDone(i))

\* ------------------------------------------------------------------ claims

\* A master-click arrives at slot i in this step.
ClickArrives(i) == req[i].pc = "idle" /\ req'[i].kind = "master-click"

\* C1: a master-click handled less than the dedup window after its key was
\* recorded is answered 200 {success, deduped} and sends nothing (no message,
\* no alert); a recorded click whose delivery met no failure is answered 200
\* without the deduped flag after exactly one POST.
C1_DuplicateWithinWindow ==
    /\ [][\A i \in Reqs :
            (/\ ClickArrives(i)
             /\ req'[i].key \in DOMAIN recorded
             /\ now - recorded[req'[i].key] < MASTER_CLICK_DEDUP_MS)
            => /\ req'[i].pc = "responded"
               /\ req'[i].status = 200
               /\ req'[i].deduped
               /\ req'[i].call = NoCall
               /\ req'[i].alertCalls = 0
               /\ alerts' = alerts]_vars
    /\ [](\A i \in Reqs :
            (/\ req[i].kind = "master-click"
             /\ req[i].pc = "responded"
             /\ ~req[i].deduped
             /\ req[i].call.lastError = NoError)
            => /\ req[i].status = 200
               /\ req[i].call.which = "message"
               /\ req[i].call.posts = 1)

\* The pair of C1: the first click delivered with one POST, the second, from
\* the same address for the same master, suppressed without any.
C1_Witness ==
    \E i, j \in Reqs :
        /\ i # j
        /\ req[i].kind = "master-click" /\ req[j].kind = "master-click"
        /\ req[i].ip = req[j].ip /\ req[i].master = req[j].master
        /\ req[i].pc = "responded" /\ req[i].status = 200 /\ ~req[i].deduped
        /\ req[i].call.posts = 1
        /\ req[j].pc = "responded" /\ req[j].status = 200 /\ req[j].deduped
        /\ req[j].call.posts = 0

\* C2: a master-click handled once the dedup window has elapsed since its key
\* was last recorded is not suppressed: the key is recorded again with the
\* current time, the delivery of its message is started (one POST in flight when
\* Telegram is configured), and its response never carries the deduped flag.
C2_ProcessedAfterWindow ==
    [][\A i \in Reqs :
          /\ (/\ ClickArrives(i)
              /\ req'[i].key \in DOMAIN recorded
              /\ now - recorded[req'[i].key] >= MASTER_CLICK_DEDUP_MS)
             => /\ ~req'[i].deduped
                /\ req'[i].key \in DOMAIN masterClickCache'
                /\ masterClickCache'[req'[i].key] = now
                /\ req'[i].call.which = "message" \/ req'[i].failed
                /\ (telegramBotToken # "" /\ telegramChatId # "")
                      => req'[i].pc = "posting" /\ req'[i].call.posts = 1
          /\ (req[i].pc # "idle" /\ req'[i].pc # "idle")
             => req'[i].deduped = req[i].deduped]_vars

\* Two clicks with one key, both processed: the later one came after the window.
C2_Witness ==
    \E i, j \in Reqs :
        /\ i # j
        /\ req[i].kind = "master-click" /\ req[j].kind = "master-click"
        /\ req[i].key = req[j].key
        /\ ~req[i].deduped /\ req[i].pc = "responded"
        /\ ~req[j].deduped /\ req[j].pc = "posting"
        /\ masterClickCache[req[j].key] = now
        /\ now >= StartTime + MASTER_CLICK_DEDUP_MS

\* A failed POST that was a client-side timeout or had no HTTP response.
IsTransientFailure(e) ==
    e \in AxiosErrors /\ (e.code = "ECONNABORTED" \/ ~e.response)

\* A failed POST that the remote answered with an HTTP error status.
IsRejection(e) ==
    e \in AxiosErrors /\ e.response /\ e.code # "ECONNABORTED"

\* C3: no deliver call makes more than 1 + TELEGRAM_RETRY_ATTEMPTS POSTs; a call
\* that raised on a transient failure has made exactly that many, all failed,
\* and a transient failure with budget left does not raise; the raise of the
\* handler's own message reaches its catch block.
C3_RetriesExhausted ==
    \A i \in Reqs :
        LET c == req[i].call
        IN  /\ c.posts <= 1 + TELEGRAM_RETRY_ATTEMPTS
            /\ (c.outcome = "raised" /\ IsTransientFailure(c.lastError))
               => /\ c.posts = 1 + TELEGRAM_RETRY_ATTEMPTS
                  /\ req[i].attempt = c.posts
                  /\ c.which = "message" => req[i].failed
            /\ (IsTransientFailure(c.lastError) /\ req[i].attempt <= TELEGRAM_RETRY_ATTEMPTS)
               => c.outcome # "raised"

C3_Witness ==
    \E i \in Reqs :
        /\ req[i].call.outcome = "raised"
        /\ req[i].call.lastError = TimeoutError
        /\ req[i].call.posts = 1 + TELEGRAM_RETRY_ATTEMPTS

\* C4: a deliver call whose last POST was rejected by the remote has raised:
\* it is neither waiting to retry nor posting again, and each of its POSTs failed.
C4_RejectionNotRetried ==
    \A i \in Reqs :
        LET c == req[i].call
        IN  IsRejection(c.lastError)
            => /\ c.outcome = "raised"
               /\ req[i].pc \notin {"posting", "sleeping"}
               /\ c.posts = req[i].attempt
               /\ c.which = "message" => req[i].failed

\* The first attempt is rejected with the retry budget untouched.
C4_Witness ==
    \E i \in Reqs :
        /\ req[i].call.lastError = HttpError
        /\ req[i].call.outcome = "raised"
        /\ req[i].call.posts = 1
        /\ TELEGRAM_RETRY_ATTEMPTS >= 1

\* C5: any two attempted alert deliveries are at least ALERT_MIN_INTERVAL_MS
\* apart, and lastAlertAt is the time of the latest one.
C5_AlertsSpaced ==
    /\ \A p, q \in 1..Len(alerts) :
          p < q => alerts[q] - alerts[p] >= ALERT_MIN_INTERVAL_MS
    /\ lastAlertAt = IF alerts = <<>> THEN 0 ELSE alerts[Len(alerts)]

C5_Witness ==
    /\ Len(alerts) = 2
    /\ alerts[2] - alerts[1] = ALERT_MIN_INTERVAL_MS

\* A handler's catch block starts for request i in this step.
FailureReported(i) == ~req[i].failed /\ req'[i].failed

\* C6: with alerting enabled, a failure reported when no alert was attempted
\* yet, or at least ALERT_MIN_INTERVAL_MS after the last attempted one, starts
\* one alert delivery and sets lastAlertAt to the current time; a request
\* never starts a second one.
C6_AlertAfterInterval ==
    [][\A i \in Reqs :
          /\ (/\ FailureReported(i)
              /\ env.NODE_ENV = "production" /\ env.ERROR_ALERTS_ENABLED = "1"
              /\ \/ alerts = <<>>
                 \/ now - alerts[Len(alerts)] >= ALERT_MIN_INTERVAL_MS)
             => /\ req'[i].alertCalls = 1
                /\ req'[i].call.which = "alert"
                /\ lastAlertAt' = now
                /\ alerts' = Append(alerts, now)
          /\ (req[i].failed /\ req'[i].pc # "idle")
             => req'[i].alertCalls = req[i].alertCalls]_vars

\* A second failure, an interval after the first alert, has started its alert.
C6_Witness ==
    \E i \in Reqs :
        /\ req[i].failed /\ req[i].alertCalls = 1
        /\ req[i].pc = "posting" /\ req[i].call.which = "alert"
        /\ Len(alerts) = 2
        /\ lastAlertAt = now

\* C7: a request whose alert delivery failed is answered with the generic 500,
\* and no handler ends without a response.
C7_AlertFailureSwallowed ==
    \A i \in Reqs :
        /\ req[i].pc \in {"idle", "posting", "sleeping", "responded"}
        /\ (req[i].call.which = "alert" /\ req[i].call.outcome = "raised")
           => /\ req[i].pc = "responded"
              /\ req[i].status = 500
              /\ req[i].error = "generic"

\* The alert of a failed review was rejected by the remote.
C7_Witness ==
    \E i \in Reqs :
        /\ req[i].kind = "review"
        /\ req[i].call.which = "alert" /\ req[i].call.outcome = "raised"
        /\ req[i].call.lastError = HttpError
        /\ req[i].status = 500

\* C8: when NODE_ENV is not production or ERROR_ALERTS_ENABLED is not '1', no
\* alert delivery is ever attempted and lastAlertAt keeps its initial value.
C8_AlertsDisabledNoop ==
    (env.NODE_ENV # "production" \/ env.ERROR_ALERTS_ENABLED # "1")
    => /\ lastAlertAt = 0
       /\ alerts = <<>>
       /\ \A i \in Reqs : req[i].alertCalls = 0 /\ req[i].call.which # "alert"

\* A failure was reported in production without the opt-in flag.
C8_Witness ==
    /\ env.NODE_ENV = "production" /\ env.ERROR_ALERTS_ENABLED # "1"
    /\ \E i \in Reqs : req[i].failed /\ req[i].pc = "responded" /\ req[i].status = 500

\* The bot token or the chat identifier is absent.
ConfigAbsent == env.TELEGRAM_BOT_TOKEN = "" \/ env.TELEGRAM_CHAT_ID = ""

\* C9 as stated: with the bot token or the chat identifier absent no POST is
\* made, and every request that passes validation is answered 500.
C9_Original ==
    ConfigAbsent
    => \A i \in Reqs :
          /\ req[i].call.posts = 0
          /\ req[i].pc \in {"idle", "responded"}
          /\ (req[i].pc = "responded" /\ req[i].status # 400) => req[i].status = 500

\* C9 as amended: with the bot token or the chat identifier absent no POST is
\* made and no request is left waiting; every request that passes validation
\* is answered 500 after its catch block ran, except a master-click suppressed
\* as a duplicate, which attempts no delivery and is answered 200 deduped.
C9_NoPostWithoutConfig ==
    ConfigAbsent
    => \A i \in Reqs :
          /\ req[i].call.posts = 0
          /\ req[i].pc \in {"idle", "responded"}
          /\ (req[i].pc = "responded" /\ req[i].status # 400 /\ ~req[i].deduped)
             => req[i].status = 500 /\ req[i].failed
          /\ (req[i].pc = "responded" /\ req[i].deduped)
             => req[i].status = 200 /\ req[i].call = NoCall

\* Only the chat identifier is absent: a click failed, its duplicate was deduped.
C9_Witness ==
    /\ env.TELEGRAM_BOT_TOKEN # "" /\ env.TELEGRAM_CHAT_ID = ""
    /\ \E i, j \in Reqs :
          /\ req[i].kind = "master-click" /\ req[i].status = 500
          /\ req[i].call.lastError = ConfigError
          /\ req[j].kind = "master-click" /\ req[j].deduped

ReviewArrives(i) == req[i].pc = "idle" /\ req'[i].kind = "review"

\* C11: a review that fails validation (rating not an integer in 1..5 once
\* read as a number, name empty after sanitizing, or rating below 5 with a
\* reason empty after sanitizing) is answered 400 at once with the message of
\* the first rule it fails; it starts no delivery and no alert, and leaves
\* lastAlertAt and the dedup cache as they were.
C11_ValidationFailure ==
    [][\A i \in Reqs :
          LET r == req'[i]
              numericRating == ToNumber(r.rating)
              badRating == ~isValidRating(numericRating)
              noName == sanitizeText(r.name, MAX_NAME_LENGTH) = <<>>
              noReason == /\ ~badRating
                          /\ numericRating.n < 5
                          /\ sanitizeText(r.reason, MAX_REASON_LENGTH) = <<>>
          IN  (ReviewArrives(i) /\ (badRating \/ noName \/ noReason))
              => /\ r.pc = "responded"
                 /\ r.status = 400
                 /\ r.error =
                       IF badRating THEN "Rating must be an integer between 1 and 5."
                       ELSE IF noName THEN "Name is required."
                       ELSE "Please provide a short note about your experience."
                 /\ r.call = NoCall
                 /\ r.alertCalls = 0
                 /\ ~r.failed
                 /\ alerts' = alerts
                 /\ lastAlertAt' = lastAlertAt
                 /\ masterClickCache' = masterClickCache]_vars

\* A review with a bad rating and no name is rejected for its rating while
\* the throttle stamp is set and the dedup cache holds a key.
C11_Witness ==
    \E i \in Reqs :
        /\ req[i].kind = "review"
        /\ req[i].rating = JNum(6)
        /\ req[i].name = JStr(<<32>>)
        /\ req[i].status = 400
        /\ req[i].error = "Rating must be an integer between 1 and 5."
        /\ lastAlertAt # 0
        /\ DOMAIN masterClickCache # {}

\* C12 as stated: a review is accepted (not answered with the 400 rating
\* message) if and only if its rating is a number that is an integer in 1..5;
\* absent, null, boolean and text ratings are all rejected, and a rejected
\* review starts no delivery (read on submissions whose name and reason are
\* not empty after sanitizing, which no other rule rejects).
C12_Original ==
    \A i \in Reqs :
        LET r == req[i]
            integerInRange == /\ r.rating.t = "number"
                              /\ ~r.rating.half
                              /\ r.rating.n \in 1..5
            rejected == /\ r.pc = "responded"
                        /\ r.status = 400
                        /\ r.error = "Rating must be an integer between 1 and 5."
        IN  (/\ r.kind = "review"
             /\ r.pc # "idle"
             /\ sanitizeText(r.name, MAX_NAME_LENGTH) # <<>>
             /\ sanitizeText(r.reason, MAX_REASON_LENGTH) # <<>>)
            => /\ integerInRange <=> ~rejected
               /\ rejected => r.call = NoCall

\* C13 as stated: sanitizing the output of sanitizeText again, with the same
\* maxLength, returns it unchanged.
C13_Original ==
    sample.applied = 2 => sample.second = sample.first

\* A code unit of the C0 range, DEL, or a code unit of the C1 range.
IsControl(c) == c \in 0..31 \/ c = 127 \/ c \in 128..159

\* C14 as stated: the output of sanitizeText holds no control character and
\* is at most maxLength code units long.
C14_Original ==
    sample.applied >= 1
    => /\ \A j \in 1..Len(sample.first) : ~IsControl(sample.first[j])
       /\ Len(sample.first) <= sample.maxLength

\* C14 as amended: the output of sanitizeText holds no control character
\* other than tab, line feed and carriage return, holds none of these three at
\* its start or end unless it was cut at maxLength, and is at most maxLength
\* code units long.
C14_NoControlButLayout ==
    sample.applied >= 1
    => LET out == sample.first
       IN  /\ \A j \in 1..Len(out) : IsControl(out[j]) => out[j] \in {9, 10, 13}
           /\ Len(out) <= sample.maxLength
           /\ out # <<>> => ~IsControl(out[1])
           /\ (out # <<>> /\ Len(out) < sample.maxLength) => ~IsControl(out[Len(out)])

\* U+0085 "a" tab "a" cut at two code units: the tab is kept, U+0085 is not.
C14_Witness ==
    /\ sample.applied >= 1
    /\ sample.raw = JStr(<<133, 97, 9, 97>>)
    /\ sample.maxLength = 2
    /\ sample.first = <<97, 9>>

\* C15: a review answered 200 carries redirectUrl exactly when its rating is 5
\* and GOOGLE_REVIEW_URL is configured, and then with the configured URL; a
\* review answered 200 for a rating of 1 to 4 carries none.
C15_RedirectOnlyForFive ==
    \A i \in Reqs :
        LET r == req[i]
        IN  (r.kind = "review" /\ r.pc = "responded" /\ r.status = 200)
            => /\ r.redirectUrl # ""
                  <=> (ToNumber(r.rating) = Num(5, FALSE) /\ env.GOOGLE_REVIEW_URL # "")
               /\ r.redirectUrl # "" => r.redirectUrl = env.GOOGLE_REVIEW_URL
               /\ ToNumber(r.rating).n \in 1..4 => r.redirectUrl = ""

\* With the URL configured, a 5 without a reason was delivered and redirected.
C15_Witness ==
    \E i \in Reqs :
        /\ req[i].kind = "review"
        /\ req[i].rating = JNum(5)
        /\ req[i].reason = JStr(<<>>)
        /\ req[i].status = 200
        /\ req[i].redirectUrl = "https://g.page/r/review"

\* The delivery of the message of review i fails in this step: its POST in
\* flight fails and is not retried, so the handler's catch block starts.
ReviewDeliveryFails(i) ==
    /\ req[i].kind = "review"
    /\ req[i].pc = "posting"
    /\ req[i].call.which = "message"
    /\ FailureReported(i)

\* C16: when the delivery of a valid review fails (retries exhausted, or
\* rejected by the remote), one alert delivery is started for it if alerting is
\* enabled and at least ALERT_MIN_INTERVAL_MS passed since lastAlertAt, and
\* otherwise none is and the generic 500 is sent at once; the request never
\* starts another alert, and the response it ends with is the generic 500.
C16_FailedDeliveryAlertsOnce ==
    [][\A i \in Reqs :
          LET r == req'[i]
              alerting == env.NODE_ENV = "production" /\ env.ERROR_ALERTS_ENABLED = "1"
              elapsed == now - lastAlertAt >= ALERT_MIN_INTERVAL_MS
          IN  /\ ReviewDeliveryFails(i)
                 => IF alerting /\ elapsed
                    THEN /\ r.alertCalls = 1
                         /\ r.call.which = "alert"
                         /\ r.call.posts = 1
                         /\ r.pc = "posting"
                         /\ alerts' = Append(alerts, now)
                    ELSE /\ r.alertCalls = 0
                         /\ r.call.which = "message"
                         /\ r.pc = "responded"
                         /\ r.status = 500
                         /\ r.error = "generic"
                         /\ alerts' = alerts
              /\ (req[i].kind = "review" /\ req[i].failed /\ r.pc # "idle")
                 => /\ r.alertCalls = req[i].alertCalls
                    /\ r.pc = "responded" => r.status = 500 /\ r.error = "generic"]_vars

\* Two reviews whose delivery failed, both answered 500: the alert of one was
\* delivered with one POST, the other came within the interval and started none.
C16_Witness ==
    \E i, j \in Reqs :
        /\ req[i].kind = "review" /\ req[j].kind = "review"
        /\ req[i].failed /\ req[i].pc = "responded" /\ req[i].status = 500
        /\ req[i].alertCalls = 1
        /\ req[i].call.which = "alert" /\ req[i].call.outcome = "ok"
        /\ req[j].failed /\ req[j].pc = "responded" /\ req[j].status = 500
        /\ req[j].alertCalls = 0
        /\ req[j].call.lastError \in {TimeoutError, HttpError}

\* C17: a request answered 200 without the deduped flag is a review, a
\* google-click or a master-click whose own delivery made at least one POST and
\* ended with a successful one; a request whose delivery is waiting for a POST
\* or for the retry timer has no response yet, and a request whose delivery
\* failed is never answered 200.
C17_SuccessAfterDelivery ==
    \A i \in Reqs :
        LET r == req[i]
        IN  /\ (r.pc = "responded" /\ r.status = 200 /\ ~r.deduped)
               => /\ r.kind \in {"review", "google-click", "master-click"}
                  /\ r.call.which = "message"
                  /\ r.call.outcome = "ok"
                  /\ r.call.posts >= 1
                  /\ ~r.failed
            /\ r.pc \in {"posting", "sleeping"} => r.status = 0
            /\ r.failed => r.status # 200

\* A google-click answered 200 after its first POST timed out and its second
\* succeeded.
C17_Witness ==
    \E i \in Reqs :
        /\ req[i].kind = "google-click"
        /\ req[i].pc = "responded" /\ req[i].status = 200
        /\ req[i].call.outcome = "ok"
        /\ req[i].call.posts = 2
        /\ req[i].call.lastError = TimeoutError

\* C18: a master-click that arrives while another request with the same key
\* has its delivery in flight, less than the dedup window after the key was
\* recorded, is answered as a duplicate at once and attempts no delivery; and a
\* click that is not a duplicate has its key in the cache, with the current
\* time, by the end of the step in which it was looked up.
C18_ConcurrentClicksOneDelivery ==
    [][\A i \in Reqs :
          /\ \A j \in Reqs \ {i} :
                (/\ ClickArrives(i)
                 /\ req[j].kind = "master-click"
                 /\ ~req[j].deduped
                 /\ req[j].pc \in {"posting", "sleeping"}
                 /\ req[j].key = req'[i].key
                 /\ req'[i].key \in DOMAIN recorded
                 /\ now - recorded[req'[i].key] < MASTER_CLICK_DEDUP_MS)
                => /\ req'[i].pc = "responded"
                   /\ req'[i].status = 200
                   /\ req'[i].deduped
                   /\ req'[i].call = NoCall
                   /\ req'[j] = req[j]
                   /\ masterClickCache' = masterClickCache
          /\ (ClickArrives(i) /\ ~req'[i].deduped)
             => /\ req'[i].key \in DOMAIN masterClickCache'
                /\ masterClickCache'[req'[i].key] = now]_vars

\* The first click waits for the retry timer; the second, with its key, was
\* answered as a duplicate meanwhile.
C18_Witness ==
    \E i, j \in Reqs :
        /\ i # j
        /\ req[j].kind = "master-click" /\ ~req[j].deduped
        /\ req[j].pc = "sleeping"
        /\ req[i].kind = "master-click" /\ req[i].key = req[j].key
        /\ req[i].pc = "responded" /\ req[i].deduped
        /\ req[i].call = NoCall

\* C19 as stated: the dedup cache never holds more entries than the sweep
\* threshold plus the one whose insert triggers the sweep.
C19_Original ==
    Cardinality(DOMAIN masterClickCache) <= CLEANUP_SIZE + 1

\* A review is stored on the device and its retention has not expired.
StoredValid ==
    storage.present /\ now - storage.submittedAt <= REVIEW_TTL_MS

\* Page t sends a POST /api/review in this step.
PostSent(t) == tab[t].pc # "submitting" /\ tab'[t].pc = "submitting"

\* Page t is loaded in this step.
PageLoads(t) == tab[t].pc = "closed" /\ tab'[t].pc # "closed"

\* C20 as stated: while a review is stored and not expired, no page sends a
\* new POST /api/review and every page load ends with the form disabled,
\* whatever the stored rating and with or without a redirect URL.
C20_Original ==
    [][StoredValid
       => \A t \in Tabs :
             /\ ~PostSent(t)
             /\ PageLoads(t) => tab'[t].formLocked /\ tab'[t].submitDisabled]_vars

\* C20 as amended: while a review is stored and not expired, no page sends a
\* new POST /api/review; a page load ends with the form disabled and the
\* review kept, unless the review has rating 5 and no redirect URL: that one is
\* removed by the load, which leaves the form enabled.
C20_StoredReviewLocksForm ==
    [][StoredValid
       => \A t \in Tabs :
             /\ ~PostSent(t)
             /\ PageLoads(t)
                => IF storage.rating = 5 /\ storage.redirectUrl = ""
                   THEN /\ ~storage'.present
                        /\ ~tab'[t].formLocked
                        /\ ~tab'[t].submitDisabled
                   ELSE /\ storage' = storage
                        /\ tab'[t].formLocked
                        /\ tab'[t].submitDisabled
                        /\ tab'[t].selectedRating = storage.rating]_vars

\* At the last instant of its retention a stored 4 has disabled the form of
\* the one page open, which shows that a review was already left.
C20_Witness ==
    /\ storage.present /\ storage.rating = 4
    /\ now = storage.submittedAt + REVIEW_TTL_MS
    /\ tab[1].pc = "closed"
    /\ tab[2].pc = "ready"
    /\ tab[2].formLocked /\ tab[2].submitDisabled
    /\ tab[2].status = "already"
    /\ tab[2].selectedRating = 4

\* The item in localStorage is one a read must discard: it does not parse, it
\* has no valid submittedAt, or it is older than the retention window.
StoredInvalid ==
    /\ storage.present
    /\ \/ ~storage.parses
       \/ storage.submittedAt = 0
       \/ now - storage.submittedAt > REVIEW_TTL_MS

\* Page t reads the stored review in this step: a page is loaded, or an open
\* page handles a click that has not been answered from its own flag.
ReadsStorage(t) ==
    \/ tab[t].pc = "closed" /\ tab'[t].pc # "closed"
    \/ /\ tab[t].pc = "masters"
       /\ tab'[t].pc = "masters"
       /\ tab'[t] # tab[t]
       /\ ~tab[t].click.pending
    \/ /\ tab[t].pc = "ready"
       /\ tab'[t].pc = "ready"
       /\ tab'[t] # tab[t]
       /\ ~tab[t].click.pending

\* C21 as stated: a step in which a page, main or masters, reads a stored item
\* that does not parse, has no valid submittedAt or is older than the
\* retention window leaves no item in storage and no review with the page.
C21_Original ==
    [][\A t \in Tabs :
          (StoredInvalid /\ ReadsStorage(t))
          => /\ ~storage'.present
             /\ ~tab'[t].formLocked
             /\ ~tab'[t].masterClickSent
             /\ ~tab'[t].click.stored.present]_vars

\* C22 as stated: at most one google-click request is ever sent with one
\* stored review.
C22_Original ==
    device.googleClicks <= 1

\* C23: the load of the review page on a device that holds a review with
\* rating 5 and no redirect URL, still within its retention, removes the item
\* and leaves the page as one opened on a device without a review: no rating
\* selected, nothing locked or disabled, no status, no reward.
C23_FiveWithoutUrlDiscarded ==
    [][\A t \in Tabs :
          (/\ tab[t].pc = "closed" /\ tab'[t].pc = "ready"
           /\ StoredValid
           /\ storage.rating = 5
           /\ storage.redirectUrl = "")
          => /\ storage' = NoItem
             /\ tab'[t] = OpenTab]_vars

\* With no review URL configured, page 1 has submitted a 5 and thanked for it;
\* page 2, loaded afterwards, is open and unrated and the item is gone.
C23_Witness ==
    /\ env.GOOGLE_REVIEW_URL = ""
    /\ tab[1].status = "thanks" /\ tab[1].formLocked
    /\ tab[1].selectedRating = 5 /\ ~tab[1].reward
    /\ tab[2] = OpenTab
    /\ ~storage.present
    /\ now = StartTime

\* The POST of slot i that succeeds in this step is a retry: an earlier POST
\* of the same deliver call failed transiently.
RetrySucceeds(i) ==
    /\ req[i].pc = "posting"
    /\ req[i].attempt >= 1
    /\ IsTransientFailure(req[i].call.lastError)
    /\ req'[i].call.outcome = "ok"

\* C24 as stated, for every deliver call: a retry that succeeds answers the
\* enclosing request 200, with no alert attempted and lastAlertAt unchanged.
C24_Original ==
    [][\A i \in Reqs :
          RetrySucceeds(i)
          => /\ req'[i].pc = "responded"
             /\ req'[i].status = 200
             /\ req'[i].alertCalls = 0
             /\ lastAlertAt' = lastAlertAt]_vars

\* C24: a retry that succeeds within the budget ends its deliver call with
\* success and leaves lastAlertAt and the alerts sent unchanged; when the call
\* delivered the handler's own message the request is answered 200, no failure
\* is reported and no alert is attempted; when it delivered an alert the
\* request is answered with the generic 500 of the failure that raised it.
C24_RetrySuccessIsSuccess ==
    [][\A i \in Reqs :
          RetrySucceeds(i)
          => /\ req'[i].call.outcome = "ok"
             /\ req'[i].call.posts = req[i].attempt + 1
             /\ req'[i].call.posts <= 1 + TELEGRAM_RETRY_ATTEMPTS
             /\ req'[i].pc = "responded"
             /\ lastAlertAt' = lastAlertAt
             /\ alerts' = alerts
             /\ IF req[i].call.which = "message"
                THEN /\ req'[i].status = 200
                     /\ ~req'[i].failed
                     /\ req'[i].alertCalls = 0
                ELSE /\ req'[i].status = 500
                     /\ req'[i].error = "generic"
                     /\ req'[i].failed
                     /\ req'[i].alertCalls = 1]_vars

\* With alerting on, a review answered 200 with its redirect URL after its
\* first POST met a connection failure and its second succeeded.
C24_Witness ==
    \E i \in Reqs :
        /\ env.NODE_ENV = "production" /\ env.ERROR_ALERTS_ENABLED = "1"
        /\ req[i].kind = "review"
        /\ req[i].pc = "responded" /\ req[i].status = 200
        /\ req[i].redirectUrl # ""
        /\ req[i].call.outcome = "ok"
        /\ req[i].call.posts = 2
        /\ req[i].call.lastError = NetworkError
        /\ req[i].alertCalls = 0
        /\ lastAlertAt = 0

\* A master-click arrives at slot i in this step and is not suppressed.
ClickInserted(i) == ClickArrives(i) /\ ~req'[i].deduped

\* C25: a master-click that is not suppressed sets its key to the current
\* time; when that leaves more entries than the sweep threshold, exactly the
\* entries older than the dedup window are removed, and when it leaves no more
\* than the threshold none is; every entry that stays keeps its time, and no
\* other step (a suppressed click included) changes the cache.
C25_SweepOnInsertOnly ==
    [][/\ \A i \in Reqs :
             ClickInserted(i)
             => LET key == req'[i].key
                    grown == DOMAIN masterClickCache \cup {key}
                    old == {k \in DOMAIN masterClickCache \ {key} :
                               now - masterClickCache[k] > MASTER_CLICK_DEDUP_MS}
                IN  /\ DOMAIN masterClickCache' =
                          IF Cardinality(grown) > CLEANUP_SIZE THEN grown \ old
                          ELSE grown
                    /\ key \in DOMAIN masterClickCache'
                    /\ \A k \in DOMAIN masterClickCache' :
                          masterClickCache'[k] =
                             IF k = key THEN now ELSE masterClickCache[k]
       /\ (\A i \in Reqs : ~ClickInserted(i))
          => masterClickCache' = masterClickCache]_vars

\* A sweep has removed a key and kept two: the one just inserted and one
\* recorded before it that was not older than the window.
C25_Witness ==
    \E i \in Reqs, k \in DOMAIN masterClickCache :
        /\ req[i].kind = "master-click" /\ req[i].pc = "posting"
        /\ masterClickCache[req[i].key] = now
        /\ k # req[i].key
        /\ masterClickCache[k] < now
        /\ DOMAIN recorded # DOMAIN masterClickCache
        /\ Cardinality(DOMAIN recorded) > CLEANUP_SIZE

\* C26: with the history variable `recorded` as the cache that never evicts
\* (it takes every insert and no sweep), a master-click is suppressed exactly
\* when its key is in `recorded` with an age below the dedup window; every
\* entry still in the cache has the time `recorded` has for it, and every
\* entry the sweep has removed is older than the window.
C26_EvictionKeepsDecisions ==
    /\ [][\A i \in Reqs :
            ClickArrives(i)
            => (req'[i].deduped
                  <=> /\ req'[i].key \in DOMAIN recorded
                      /\ now - recorded[req'[i].key] < MASTER_CLICK_DEDUP_MS)]_vars
    /\ [](/\ DOMAIN masterClickCache \subseteq DOMAIN recorded
          /\ \A k \in DOMAIN masterClickCache : masterClickCache[k] = recorded[k]
          /\ \A k \in DOMAIN recorded \ DOMAIN masterClickCache :
                now - recorded[k] > MASTER_CLICK_DEDUP_MS)

\* After a sweep removed a key, a click is suppressed by an entry that the
\* sweep kept: it was recorded before the insert that triggered the sweep.
C26_Witness ==
    \E i \in Reqs, k \in DOMAIN masterClickCache :
        /\ req[i].kind = "master-click" /\ req[i].deduped
        /\ req[i].key \in DOMAIN masterClickCache
        /\ masterClickCache[req[i].key] < masterClickCache[k]
        /\ DOMAIN recorded # DOMAIN masterClickCache

\* The delivery of the master-click in slot i fails in this step.
ClickDeliveryFails(i) ==
    /\ req'[i].kind = "master-click"
    /\ ~req[i].failed
    /\ req'[i].failed

\* C27: the step in which the delivery of a master-click fails changes nothing
\* in the cache, which still holds the click's key with the time it was
\* recorded unless that time is older than the dedup window (a sweep may have
\* removed it while the delivery was in flight); and a master-click that
\* arrives less than the dedup window after its key was recorded by a click
\* whose delivery failed and was answered 500 is answered 200 {success,
\* deduped} and makes no delivery.
C27_RecordKeptOnFailure ==
    [][\A i \in Reqs :
          /\ ClickDeliveryFails(i)
             => /\ req[i].pc # "idle" => masterClickCache' = masterClickCache
                /\ \/ /\ req'[i].key \in DOMAIN masterClickCache'
                      /\ masterClickCache'[req'[i].key] = recorded'[req'[i].key]
                   \/ now - recorded'[req'[i].key] > MASTER_CLICK_DEDUP_MS
          /\ \A j \in Reqs \ {i} :
                (/\ ClickArrives(i)
                 /\ req[j].kind = "master-click"
                 /\ req[j].failed
                 /\ req[j].pc = "responded" /\ req[j].status = 500
                 /\ req[j].key = req'[i].key
                 /\ now - recorded[req[j].key] < MASTER_CLICK_DEDUP_MS)
                => /\ req'[i].deduped
                   /\ req'[i].pc = "responded"
                   /\ req'[i].status = 200
                   /\ req'[i].call = NoCall
                   /\ ~req'[i].failed]_vars

\* A click whose delivery was rejected by the remote and answered 500, and an
\* identical click suppressed within the window of its record.
C27_Witness ==
    \E i, j \in Reqs :
        /\ i # j
        /\ req[j].kind = "master-click" /\ req[j].failed
        /\ req[j].pc = "responded" /\ req[j].status = 500
        /\ req[j].call.lastError = HttpError
        /\ req[i].kind = "master-click"
        /\ req[i].ip = req[j].ip /\ req[i].master = req[j].master
        /\ req[i].pc = "responded" /\ req[i].status = 200 /\ req[i].deduped
        /\ req[i].call = NoCall
        /\ now - masterClickCache[req[j].key] < MASTER_CLICK_DEDUP_MS

\* C28: a master-click that is suppressed changes nothing but its own slot:
\* the cache (no time refreshed, no entry swept), lastAlertAt, the alerts sent
\* and every other request stay as they were; and a click is suppressed only
\* when the last click with its key that was not suppressed is less than the
\* dedup window old.
C28_SuppressedClickChangesNothing ==
    [][\A i \in Reqs :
          (ClickArrives(i) /\ req'[i].deduped)
          => /\ masterClickCache' = masterClickCache
             /\ recorded' = recorded
             /\ lastAlertAt' = lastAlertAt
             /\ alerts' = alerts
             /\ \A j \in Reqs \ {i} : req'[j] = req[j]
             /\ req'[i].alertCalls = 0
             /\ req'[i].key \in DOMAIN recorded
             /\ now - recorded[req'[i].key] < MASTER_CLICK_DEDUP_MS]_vars

\* After an alert was sent, one click is answered as a duplicate and a click
\* with the same key, recorded at the current time, is being delivered.
C28_Witness ==
    \E i, j \in Reqs :
        /\ i # j
        /\ lastAlertAt > 0
        /\ req[i].kind = "master-click" /\ req[i].deduped
        /\ req[i].pc = "responded"
        /\ req[j].kind = "master-click" /\ ~req[j].deduped
        /\ req[j].key = req[i].key
        /\ req[j].pc = "posting"
        /\ masterClickCache[req[j].key] = now

\* C29 as stated: a master-click is suppressed by the record of another only
\* if the two have the same originating address and the same subject.
C29_Original ==
    \A i, j \in Reqs :
        (/\ req[i].kind = "master-click" /\ req[i].deduped
         /\ req[j].kind = "master-click" /\ ~req[j].deduped)
        => /\ req[i].ip = req[j].ip
           /\ Subject(req[i].master) = Subject(req[j].master)

\* Request i starts the delivery of an alert in this step.
AlertStarts(i) == req[i].alertCalls = 0 /\ req'[i].alertCalls = 1

\* C30: lastAlertAt changes only in the step in which a request starts the
\* delivery of an alert, and then to the current time, whether that delivery
\* has a POST in flight or has raised at once; no later step of the delivery,
\* its failure included, changes it; and a failure reported less than
\* ALERT_MIN_INTERVAL_MS after the last alert was started, whatever became of
\* that alert, starts none and leaves lastAlertAt as it is.
C30_StampBeforeDelivery ==
    [][/\ \A i \in Reqs :
             /\ AlertStarts(i)
                => /\ lastAlertAt' = now
                   /\ alerts' = Append(alerts, now)
                   /\ req'[i].call.which = "alert"
                   /\ req'[i].call.outcome \in {"pending", "raised"}
             /\ (req[i].call.which = "alert" /\ req'[i].pc # "idle")
                => /\ lastAlertAt' = lastAlertAt \/ \E j \in Reqs \ {i} : AlertStarts(j)
                   /\ req'[i].alertCalls = 1
             /\ (/\ FailureReported(i)
                 /\ alerts # <<>>
                 /\ now - alerts[Len(alerts)] < ALERT_MIN_INTERVAL_MS)
                => /\ req'[i].alertCalls = 0
                   /\ req'[i].call.which # "alert"
                   /\ lastAlertAt' = lastAlertAt
                   /\ alerts' = alerts
       /\ (\A i \in Reqs : ~AlertStarts(i)) => lastAlertAt' = lastAlertAt]_vars

\* The only alert started was rejected by the remote; a request that failed
\* since, within the interval of that alert, was answered 500 without one.
C30_Witness ==
    \E i, j \in Reqs :
        /\ req[j].call.which = "alert" /\ req[j].call.outcome = "raised"
        /\ req[j].call.lastError = HttpError
        /\ req[j].pc = "responded"
        /\ req[i].failed /\ req[i].alertCalls = 0
        /\ req[i].call.which = "message" /\ req[i].call.posts >= 1
        /\ req[i].pc = "responded" /\ req[i].status = 500
        /\ Len(alerts) = 1
        /\ lastAlertAt = alerts[1]
        /\ now - lastAlertAt < ALERT_MIN_INTERVAL_MS

\* C31 as stated: the deliver call has blocked its caller for no more than
\* timeout x (1 + retries).
C31_Original ==
    timer.blocked <= TELEGRAM_TIMEOUT_MS * (1 + TELEGRAM_RETRY_ATTEMPTS)

\* C31: from the start of its first POST to its return or raise, the deliver
\* call has blocked its caller for no more than timeout x (1 + retries) plus
\* retry delay x retries, and for no more than the timeout while it awaits its
\* first POST or has ended on it.
C31_BlockedAtMost ==
    /\ timer.blocked <= TELEGRAM_TIMEOUT_MS * (1 + TELEGRAM_RETRY_ATTEMPTS)
                          + TELEGRAM_RETRY_DELAY_MS * TELEGRAM_RETRY_ATTEMPTS
    /\ (req[1].call.posts <= 1 /\ req[1].pc # "sleeping")
       => timer.blocked <= TELEGRAM_TIMEOUT_MS

\* Every POST of the call timed out: it raised after the whole of the bound
\* and the request was answered 500.
C31_Witness ==
    /\ req[1].call.outcome = "raised"
    /\ req[1].call.lastError = TimeoutError
    /\ req[1].call.posts = 1 + TELEGRAM_RETRY_ATTEMPTS
    /\ req[1].pc = "responded" /\ req[1].status = 500
    /\ timer.blocked = TELEGRAM_TIMEOUT_MS * (1 + TELEGRAM_RETRY_ATTEMPTS)
                         + TELEGRAM_RETRY_DELAY_MS * TELEGRAM_RETRY_ATTEMPTS

\* The delivery of request i awaits a POST or the retry timer.
InDelivery(i) == req[i].pc \in {"posting", "sleeping"}

FetchEnds(t) == tab[t].pc = "submitting" /\ tab'[t].pc = "ready"

\* The fetch of page t settles in this step and the page thanks for the review.
SubmitSucceeds(t) == FetchEnds(t) /\ tab'[t].status = "thanks"

\* C33: a fetch that settles either thanks and locks the form, storing at
\* most the review it sent, or reports an error, stores nothing and leaves
\* the form unlocked and the submit button enabled; the stored item is written
\* only in a step in which a fetch succeeds; a form is locked only in such a
\* step or when its script finds a stored review; and a POST /api/review is
\* sent only with a rating selected, a name that is not blank and, below 5, a
\* reason that is not blank.
C33_StoredAfterSuccessOnly ==
    [][/\ \A t \in Tabs :
             /\ FetchEnds(t)
                => IF tab'[t].status = "thanks"
                   THEN /\ tab'[t].formLocked /\ tab'[t].submitDisabled
                        /\ \/ storage' = storage
                           \/ /\ storage'.present
                              /\ storage'.rating = tab[t].payload.rating
                              /\ storage'.submittedAt = now
                   ELSE /\ tab'[t].status = "error"
                        /\ storage' = storage
                        /\ ~tab'[t].formLocked
                        /\ ~tab'[t].submitDisabled
             /\ (~tab[t].formLocked /\ tab'[t].formLocked)
                => SubmitSucceeds(t) \/ StoredValid
             /\ PostSent(t)
                => /\ tab[t].selectedRating \in 1..5
                   /\ tab'[t].payload.rating = tab[t].selectedRating
                   /\ tab'[t].payload.name # <<>>
                   /\ tab'[t].payload.name = trim(tab'[t].payload.name)
                   /\ tab'[t].payload.rating < 5 => tab'[t].payload.reason # <<>>
                   /\ storage' = storage \/ ~storage'.present
       /\ (storage' # storage /\ storage'.present)
          => \E t \in Tabs : SubmitSucceeds(t)]_vars

\* Page 1, rated 4, shows an error and can submit again, with nothing stored;
\* page 2, rated 5, has its POST in flight without a reason.
C33_Witness ==
    /\ tab[1].pc = "ready" /\ tab[1].status = "error"
    /\ tab[1].selectedRating = 4
    /\ ~tab[1].formLocked /\ ~tab[1].submitDisabled
    /\ ~storage.present
    /\ tab[2].pc = "submitting"
    /\ tab[2].payload.rating = 5 /\ tab[2].payload.reason = <<>>

====
